---- MODULE Spec2Model ----
(***************************************************************************)
(* The session authentication controller of mpr-ui.js (createAuthHeader)   *)
(* together with the page-wide Google identity bridge it shares with every *)
(* other controller of the page.                                           *)
(*                                                                         *)
(* JavaScript runs one task to completion and then drains the microtask    *)
(* queue before the next task starts.  One action of this model is one     *)
(* task (a host call of the controller's API, a transport response, a      *)
(* callback of the session hook, the identity script's onload/onerror)     *)
(* together with the promise continuations that the task makes runnable.   *)
(* A continuation that waits for a transport stays in `tasks`.             *)
(*                                                                         *)
(* The comparison page of script.js (jurisdiction selection, results table *)
(* and charts, input controls) is modelled next to it in `app`.            *)
(***************************************************************************)
EXTENDS Integers, Sequences, FiniteSets, TLC

\* ------------------------------------------------------------- bounds
\* calls into the controllers from outside: the host's calls of the API
\* (prepareGoogleNonce, handleCredential, signOut, restartSessionWatcher) and
\* the session hook's callbacks (onAuthenticated, onUnauthenticated)
MaxCalls == 2

\* jurisdictions in the dataset the comparison page loads (the shipped
\* dataset lists the 50 states)
NumJurisdictions == 7

Controllers == {1, 2}

\* ---------------------------------------------------------- JS values
Undefined == "<undefined>"
Null == "<null>"
Absent == "<absent>"
NoStatus == 0

JsNull == [t |-> "null", props |-> <<>>]
JsScalar == [t |-> "string", props |-> <<>>]
Obj(props) == [t |-> "object", props |-> props]

\* profiles the session service (or the session hook) may hand over; an
\* object is its own properties in insertion order
PAnn == Obj(<< <<"user_id", "1">>, <<"display", "Ann">> >>)
PAnnReordered == Obj(<< <<"display", "Ann">>, <<"user_id", "1">> >>)
PBob == Obj(<< <<"user_id", "#7">>, <<"user_email", "bob@example.com">>,
               <<"display", Null>>, <<"avatar_url", "">>, <<"role", "admin">> >>)
ObjectProfiles == {PAnn, PAnnReordered, PBob}
ProfileValues == ObjectProfiles \cup {JsNull, JsScalar}

IsObject(v) == v.t = "object"

\* profile[key]
Get(v, key) ==
  IF \E i \in 1..Len(v.props) : v.props[i][1] = key
    THEN v.props[CHOOSE i \in 1..Len(v.props) : v.props[i][1] = key][2]
    ELSE Undefined

\* String(value): a number ("#7") prints as its digits
JsString(value) == IF value = "#7" THEN "7" ELSE value

ATTRIBUTE_MAP ==
  [user_id |-> "data-user-id", user_email |-> "data-user-email",
   display |-> "data-user-display", avatar_url |-> "data-user-avatar-url"]
ProfileKeys == DOMAIN ATTRIBUTE_MAP
AttributeNames == {ATTRIBUTE_MAP[k] : k \in ProfileKeys}

toStringOrNull(value) ==
  IF value = Undefined \/ value = Null THEN Null ELSE JsString(value)

\* setAttributeOrRemove that removes on any falsy value
setAttributeOrRemoveFalsy(element, name, value) ==
  IF value = Undefined \/ value = Null \/ value = ""
    THEN [element EXCEPT ![name] = Absent]
  ELSE [element EXCEPT ![name] = JsString(value)]

setAttributeOrRemove(element, name, value) ==
  LET normalized == toStringOrNull(value) IN
  IF normalized = Null THEN [element EXCEPT ![name] = Absent]
  ELSE [element EXCEPT ![name] = normalized]

\* JSON.stringify(profile): the properties in insertion order, an undefined
\* value left out
Signature(profile) ==
  SelectSeq(profile.props, LAMBDA p : p[2] # Undefined)
NoSignature == << <<"<none>", "<none>">> >>

\* ------------------------------------------------------------- errors
Err(msg, status) == [msg |-> msg, status |-> status]
NoErr == Err("", NoStatus)
MissingBaseError == Err("tauth.missing_base_url", NoStatus)
HelperErrors == {MissingBaseError, Err("helper rejected", 401)}
NonceFetchErrors ==
  {Err("nonce issuance failed", 500), Err("nonce payload missing", NoStatus)}
ExchangeFetchErrors ==
  {Err("credential exchange failed", 500), Err("Failed to fetch", NoStatus)}

\* error.message.indexOf("tauth.missing_base_url") !== -1
shouldFallbackToFetch(error) == error.msg \in {"tauth.missing_base_url"}

\* error && error.status ? error.status : null
StatusOrNull(error) == IF error.status # 0 THEN error.status ELSE NoStatus

\* --------------------------------------------------- construction input
Trim(value) == IF value \in {"", " "} THEN "" ELSE value
\* typeof value === "string"
IsString(value) == value \notin {Undefined, Null, "#7"}
normalizeGoogleSiteId(value) ==
  IF ~IsString(value) THEN Null
  ELSE IF Trim(value) # "" THEN Trim(value) ELSE Null
normalizeTenantId(value) ==
  IF ~IsString(value) THEN Null
  ELSE IF Trim(value) # "" THEN Trim(value) ELSE Null
\* options given to createAuthHeader: left out (the default ""), not a string,
\* blank, or an id
ClientIdInputs == {"", "#7", " ", "abc"}
TenantIdInputs(c) == {"", "#7", " ", IF c = 1 THEN "t1" ELSE "t2"}

\* credentialResponse handed to handleCredential: none, an empty credential,
\* a credential
CredentialInputs == {Undefined, "", "tok1"}
HasCredential(response) == response # Undefined /\ response # ""

\* ------------------------------------------------- the comparison page
\* script.js.  Numbers between 0 and 1 (rates, ratios, scores) are kept as
\* whole percents.  The dataset file (full_states_dataset.json) is fetched
\* at run time; Dataset is a dataset of NumJurisdictions entries with
\* distinct names, a jurisdiction's name being its position in the list.
Jurisdictions == 1..NumJurisdictions

domainKeys ==
  <<"housing_rent", "housing_buy", "business", "school", "speech", "privacy",
    "mobility">>

goalIds ==
  <<"goalHousingRent", "goalHousingBuy", "goalBusiness", "goalSchoolChoice",
    "goalSpeech", "goalPrivacy", "goalMobility">>

Dataset ==
  [j \in Jurisdictions |->
    [name |-> j,
     tax_proxies |->
       [income_effective_rate |-> (j * 7) % 13,
        payroll_effective_rate |-> j % 3,
        sales_effective_rate |-> (j * 3) % 9,
        property_effective_rate |-> 1 + (j % 2),
        household_adjustment |-> [couple_two_kids |-> 90, single |-> 110],
        marginal_keep_penalty |-> (j * 11) % 40],
     domains |-> [k \in 1..Len(domainKeys) |-> (j * 17 + k * 29) % 101]]]

ValueControls ==
  {"incomeValue", "householdType", "spendRatio", "homeValue", "weightFiscal",
   "weightPermission"}
GoalControls == {goalIds[k] : k \in 1..Len(goalIds)}
WeightControls == {"weightFiscal", "weightPermission"}
autoIds == ValueControls \cup GoalControls

\* what resetDefaults assigns; an element's value holds the string of the
\* number assigned to it
DefaultValues ==
  [incomeValue |-> "400000", householdType |-> "couple_two_kids",
   spendRatio |-> "0.55", homeValue |-> "1200000", weightFiscal |-> "60",
   weightPermission |-> "40"]
DefaultChecked ==
  [g \in GoalControls |->
    g \in {"goalHousingRent", "goalHousingBuy", "goalBusiness"}]

\* the values a user gives the controls
ValueInputs(id) ==
  CASE id = "incomeValue" -> {"400000", "123456"}
    [] id = "householdType" -> {"couple_two_kids", "single"}
    [] id = "spendRatio" -> {"0.55", "0.25"}
    [] id = "homeValue" -> {"1200000", "500000"}
    [] id = "weightFiscal" -> {"60", "0"}
    [] id = "weightPermission" -> {"40", "0"}
\* the goal checkboxes a user toggles
GoalInputs == {"goalSchoolChoice"}
\* the jurisdictions whose checkbox a user toggles: one of those selected
\* when the dataset has loaded and one of the others
CheckboxInputs == {1, NumJurisdictions}

\* Number(value); a ratio in percents
Number(v) ==
  CASE v = "400000" -> 400000
    [] v = "123456" -> 123456
    [] v = "1200000" -> 1200000
    [] v = "500000" -> 500000
    [] v = "0.55" -> 55
    [] v = "0.25" -> 25
    [] v = "60" -> 60
    [] v = "40" -> 40
    [] v = "0" -> 0
    [] OTHER -> -1

\* every string above is a finite number; anything else is NaN
safeNumber(valueMaybeNumber, defaultValue) ==
  IF Number(valueMaybeNumber) >= 0 THEN Number(valueMaybeNumber)
  ELSE defaultValue

clampNumber(valueNumber, minValue, maxValue) ==
  IF valueNumber < minValue THEN minValue
  ELSE IF valueNumber > maxValue THEN maxValue ELSE valueNumber

AtLeast(a, b) == IF a > b THEN a ELSE b

\* the two weights in percents of their sum
normalizeWeights(weightFiscalRaw, weightPermissionRaw) ==
  LET weightFiscalNumber == AtLeast(0, weightFiscalRaw)
      weightPermissionNumber == AtLeast(0, weightPermissionRaw)
      weightSum == weightFiscalNumber + weightPermissionNumber
  IN IF weightSum <= 0 THEN [weightFiscal |-> 50, weightPermission |-> 50]
     ELSE [weightFiscal |-> (100 * weightFiscalNumber) \div weightSum,
           weightPermission |-> (100 * weightPermissionNumber) \div weightSum]

\* a group of elements: the values, the checkboxes and the two slider labels
NoLabels == [weightFiscalValue |-> "", weightPermissionValue |-> ""]

currentGoals(p) == [k \in 1..Len(goalIds) |-> p.checked[goalIds[k]]]

RECURSIVE SumTo(_, _)
SumTo(f, n) == IF n = 0 THEN 0 ELSE f[n] + SumTo(f, n - 1)

\* a selected goal weighs 1.0, another 0.25, before they are scaled by their
\* sum; the scaling is left to the caller's division
goalDomainWeights(goalsObject) ==
  [k \in 1..Len(domainKeys) |-> IF goalsObject[k] THEN 100 ELSE 25]

computeEffectiveTaxBurden(jurisdiction, incomeUsd, householdType, spendRatio, homeValueUsd) ==
  LET tax == jurisdiction.tax_proxies
      incomeEffectiveRate == clampNumber(tax.income_effective_rate, 0, 80)
      payrollEffectiveRate == clampNumber(tax.payroll_effective_rate, 0, 30)
      salesEffectiveRate == clampNumber(tax.sales_effective_rate, 0, 25)
      propertyEffectiveRate == clampNumber(tax.property_effective_rate, 0, 5)
      householdFactor ==
        clampNumber(IF householdType \in DOMAIN tax.household_adjustment
                    THEN tax.household_adjustment[householdType] ELSE 100,
                    50, 125)
      adjustedIncomeRate ==
        clampNumber((incomeEffectiveRate * householdFactor) \div 100, 0, 80)
      incomeTaxPaid == (incomeUsd * adjustedIncomeRate) \div 100
      payrollTaxPaid == (incomeUsd * payrollEffectiveRate) \div 100
      salesTaxPaid ==
        (((incomeUsd * clampNumber(spendRatio, 0, 100)) \div 100)
           * salesEffectiveRate) \div 100
      propertyTaxPaid == (homeValueUsd * propertyEffectiveRate) \div 100
      totalTaxPaid ==
        incomeTaxPaid + payrollTaxPaid + salesTaxPaid + propertyTaxPaid
  IN [effectiveTaxRate |-> (100 * totalTaxPaid) \div AtLeast(1, incomeUsd),
      marginalKeepRate |->
        100 - clampNumber(tax.marginal_keep_penalty, 0, 90)]

\* the dataset gives each domain's friction; the three largest contributions
\* (topDomains) are a column of the row that is not kept
computePermissionControl(jurisdiction, domainWeights) ==
  LET contribution ==
        [k \in 1..Len(domainKeys) |-> domainWeights[k] * jurisdiction.domains[k]]
  IN clampNumber(SumTo(contribution, Len(domainKeys))
                   \div AtLeast(1, SumTo(domainWeights, Len(domainKeys))),
                 0, 100)

computeFreedomScore(jurisdiction, settings) ==
  LET taxBurden ==
        computeEffectiveTaxBurden(jurisdiction, settings.incomeUsd,
          settings.householdType, settings.spendRatio, settings.homeValueUsd)
      permission ==
        computePermissionControl(jurisdiction, goalDomainWeights(settings.goals))
      weights ==
        normalizeWeights(settings.weightFiscalRaw, settings.weightPermissionRaw)
      fiscalControl == clampNumber(taxBurden.effectiveTaxRate, 0, 100)
      permissionControl == clampNumber(permission, 0, 100)
      combinedControl ==
        (weights.weightFiscal * fiscalControl
           + weights.weightPermission * permissionControl) \div 100
  IN [jurisdictionName |-> jurisdiction.name,
      freedomScore |-> 100 - clampNumber(combinedControl, 0, 100),
      fiscalControlScore |-> fiscalControl,
      permissionControlScore |-> permissionControl,
      marginalKeepRate |-> taxBurden.marginalKeepRate]

\* results.sort(function (a, b) { return b.freedomScore - a.freedomScore; }):
\* descending, equal scores keeping their order
RECURSIVE InsertByScore(_, _)
InsertByScore(sorted, r) ==
  IF sorted = <<>> THEN <<r>>
  ELSE IF Head(sorted).freedomScore >= r.freedomScore
       THEN <<Head(sorted)>> \o InsertByScore(Tail(sorted), r)
       ELSE <<r>> \o sorted

RECURSIVE SortByScore(_, _)
SortByScore(results, n) ==
  IF n = 0 THEN <<>>
  ELSE InsertByScore(SortByScore(results, n - 1), results[n])

Logged(p, call) == [p EXCEPT !.log = Append(@, call)]

\* one label with its checkbox per jurisdiction of the dataset
renderSelectionList(p) ==
  IF p.dataset = "null" THEN p
  ELSE [p EXCEPT !.selectionList =
          [j \in Jurisdictions |->
            [name |-> Dataset[j].name,
             checked |-> Dataset[j].name \in p.selectedJurisdictions]]]

\* one row per result
renderTable(p, sortedResults) ==
  Logged([p EXCEPT !.resultsBody = sortedResults], "renderTable")

ChartNames(sortedResults, n) ==
  [i \in 1..n |-> sortedResults[i].jurisdictionName]

TopCount == 5

renderRadar(p, sortedResults) ==
  IF Len(sortedResults) = 0
  THEN Logged([p EXCEPT !.radarChart = [state |-> "purged", names |-> <<>>]],
              "purge radarChart")
  ELSE LET topCount == IF Len(sortedResults) < TopCount
                       THEN Len(sortedResults) ELSE TopCount
       IN Logged([p EXCEPT !.radarChart =
                    [state |-> "plotted",
                     names |-> ChartNames(sortedResults, topCount)]],
                 "newPlot radarChart")

renderScatter(p, sortedResults) ==
  IF Len(sortedResults) = 0
  THEN Logged([p EXCEPT !.scatterChart = [state |-> "purged", names |-> <<>>]],
              "purge scatterChart")
  ELSE Logged([p EXCEPT !.scatterChart =
                 [state |-> "plotted",
                  names |-> ChartNames(sortedResults, Len(sortedResults))]],
              "newPlot scatterChart")

setSliderLabels(p) ==
  [p EXCEPT !.labels =
     [weightFiscalValue |-> p.value["weightFiscal"],
      weightPermissionValue |-> p.value["weightPermission"]]]

CurrentSettings(p) ==
  [incomeUsd |-> safeNumber(p.value["incomeValue"], 400000),
   householdType |-> p.value["householdType"],
   spendRatio |-> clampNumber(safeNumber(p.value["spendRatio"], 55), 0, 100),
   homeValueUsd |-> safeNumber(p.value["homeValue"], 1200000),
   goals |-> currentGoals(p),
   weightFiscalRaw |-> safeNumber(p.value["weightFiscal"], 60),
   weightPermissionRaw |-> safeNumber(p.value["weightPermission"], 40)]

\* the rows recomputeAndRender hands to the table and the charts
FilteredResults(p) ==
  LET settings == CurrentSettings(p)
      results ==
        SortByScore([j \in Jurisdictions |->
                      computeFreedomScore(Dataset[j], settings)],
                    NumJurisdictions)
  IN SelectSeq(results,
               LAMBDA r : r.jurisdictionName \in p.selectedJurisdictions)

\* a variant that renders every result, selected or not
recomputeAndRenderUnfiltered(p) ==
  IF p.dataset = "null" THEN p
  ELSE LET settings == CurrentSettings(p)
           results ==
             SortByScore([j \in Jurisdictions |->
                           computeFreedomScore(Dataset[j], settings)],
                         NumJurisdictions)
       IN renderScatter(renderRadar(renderTable(p, results), results), results)

recomputeAndRender(p) ==
  IF p.dataset = "null" THEN p
  ELSE LET filteredResults == FilteredResults(p)
       IN renderScatter(renderRadar(renderTable(p, filteredResults),
                                    filteredResults),
                        filteredResults)

DefaultSelected == 5

\* the continuation of loadDefaultDataset once both files are there
datasetLoaded(p) ==
  LET first == IF NumJurisdictions < DefaultSelected THEN NumJurisdictions
               ELSE DefaultSelected
      q == [p EXCEPT !.dataset = "loaded",
                     !.selectedJurisdictions =
                       {Dataset[j].name : j \in 1..first}]
  IN recomputeAndRender(renderSelectionList(q))

\* a variant that leaves the goal checkboxes as they are
resetDefaultsKeepsGoals(p) ==
  recomputeAndRender(setSliderLabels([p EXCEPT !.value = DefaultValues]))

resetDefaults(p) ==
  recomputeAndRender(setSliderLabels(
    [p EXCEPT !.value = DefaultValues, !.checked = DefaultChecked]))

\* the page once the script has run: loadDefaultDataset is waiting for its
\* two files, the listeners are wired, setSliderLabels has run and
\* recomputeAndRender has returned for want of a dataset.  The markup
\* (index.html) sets the controls' first values.
LoadingPage(value, checked) ==
  recomputeAndRender(setSliderLabels(
    [dataset |-> "null", fetch |-> "pending", selectedJurisdictions |-> {},
     selectionList |-> <<>>, value |-> value, checked |-> checked,
     labels |-> NoLabels, resultsBody |-> <<>>,
     radarChart |-> [state |-> "empty", names |-> <<>>],
     scatterChart |-> [state |-> "empty", names |-> <<>>],
     log |-> <<>>, op |-> "script", threw |-> FALSE]))

\* a listener starts with nothing logged
Listening(p, op) ==
  [p EXCEPT !.log = <<>>, !.op = op, !.threw = FALSE]

\* -------------------------------------------------------------- state
VARIABLES
  hook,        \* typeof global.initAuthClient === "function"
  google,      \* global.google.accounts.id is there
  gPromise,    \* googleIdentityPromise: "null", "pending", "resolved", "rejected"
  scriptLoads, \* script elements appended for the identity script
  queue,       \* pendingGoogleInitializeQueue
  enqueued,    \* configs pushed to the queue so far (a config's id)
  inits,       \* the configs google.accounts.id.initialize was called with
  lastConfig,  \* global.__googleInitConfig
  ctl,         \* the closure variables of each controller
  attrs,       \* the data-user-* attributes of each controller's host element
  events,      \* the events the last task dispatched on each host element
  notes,       \* per controller: whether an authenticated event was ever
               \* dispatched, the unauthenticated events dispatched since
               \* the last authenticated one (or since construction), the
               \* serialization of the authenticated event when it is the
               \* last state event dispatched, and whether an authenticated
               \* event ever followed one of the same serialization directly
  nonceCalls,  \* nonce transport calls in flight
  nReq,        \* nonce requests issued so far (a request's id, and its token)
  tasks,       \* promise continuations waiting for a transport
  exchanges,   \* the nonce tokens that credential exchanges were sent with,
               \* each with the number of exchanges that carried it
  calls,       \* calls into the controllers so far
  sent,        \* the transport calls the last task issued
  login,       \* the fields and attributes of the mpr-login-button element
  button,      \* its container: the sign-in button mounted by renderGoogleButton
  step,        \* the task that ran last
  authTenantId,\* the tenant the host's session client was last given by
               \* global.setAuthTenantId
  app          \* the comparison page of script.js: applicationState and the
               \* elements of the document it reads and writes

vars == <<hook, google, gPromise, scriptLoads, queue, enqueued, inits, lastConfig, ctl,
          attrs, events, notes, nonceCalls, nReq, tasks, exchanges, calls, sent,
          login, button, step, authTenantId, app>>

World ==
  [hook |-> hook, google |-> google, gPromise |-> gPromise,
   scriptLoads |-> scriptLoads, queue |-> queue, enqueued |-> enqueued,
   inits |-> inits,
   lastConfig |-> lastConfig, ctl |-> ctl, attrs |-> attrs, events |-> events,
   notes |-> notes,
   nonceCalls |-> nonceCalls, nReq |-> nReq, tasks |-> tasks,
   exchanges |-> exchanges, calls |-> calls, sent |-> sent,
   login |-> login, button |-> button, step |-> step,
   authTenantId |-> authTenantId, app |-> app]

\* the state a task starts from: nothing dispatched or sent yet
Now ==
  [World EXCEPT !.events = [c \in Controllers |-> <<>>], !.sent = <<>>,
                !.login.errors = <<>>]

Commit(w) ==
  /\ hook' = w.hook /\ google' = w.google /\ gPromise' = w.gPromise
  /\ scriptLoads' = w.scriptLoads /\ queue' = w.queue /\ inits' = w.inits
  /\ enqueued' = w.enqueued
  /\ lastConfig' = w.lastConfig /\ ctl' = w.ctl /\ attrs' = w.attrs
  /\ events' = w.events /\ notes' = w.notes /\ nonceCalls' = w.nonceCalls /\ nReq' = w.nReq
  /\ tasks' = w.tasks /\ exchanges' = w.exchanges /\ calls' = w.calls
  /\ sent' = w.sent /\ login' = w.login /\ button' = w.button
  /\ step' = w.step /\ authTenantId' = w.authTenantId /\ app' = w.app

\* input: the options of a construction; seq: the login button's render
\* sequence number when the continuation that ran was started
Step(op, c, val, cred, err) ==
  [op |-> op, c |-> c, val |-> val, cred |-> cred, err |-> err,
   input |-> [googleClientId |-> Undefined, tenantId |-> Undefined],
   seq |-> 0]
Did(w, op, c, val, cred, err) == [w EXCEPT !.step = Step(op, c, val, cred, err)]

\* host: the element the controller was created on (rootElement)
NoController ==
  [built |-> FALSE, host |-> 0, tenantId |-> Null, googleClientId |-> Null,
   status |-> "unauthenticated", profile |-> JsNull, pendingProfile |-> JsNull,
   hasEmittedUnauthenticated |-> FALSE,
   lastAuthenticatedSignature |-> NoSignature,
   pendingNonceToken |-> 0, nonceRequestPromise |-> 0, hooked |-> FALSE]

NoAttributes == [a \in AttributeNames |-> Absent]
StaleAttributes == [NoAttributes EXCEPT !["data-user-id"] = "stale"]

\* seq: the login button's render sequence number when the continuation was
\* started (0 without a login button); siteId: the site id its render captured
Task(kind, c, phase, req, tok, cred, origin) ==
  [kind |-> kind, c |-> c, phase |-> phase, req |-> req, tok |-> tok,
   cred |-> cred, origin |-> origin, seq |-> 0, siteId |-> Null]

\* the mpr-login-button element before it is attached, with the attributes of
\* its markup; errors: the mpr-login:error events the last task dispatched;
\* superseded: the render sequence numbers that were current when a later
\* render ran or the element was detached
NoLogin ==
  [connected |-> FALSE, authController |-> 0, googleCleanup |-> 0,
   googleHost |-> FALSE, renderSequenceNumber |-> 0,
   siteId |-> "abc", tenantId |-> "t1",
   dataSiteId |-> Absent, dataError |-> Absent,
   errors |-> <<>>, superseded |-> {}]

\* the container [data-mpr-login="google-button"]: its attributes, the button
\* rendered into its render target (0: none), and the buttons whose
\* handleGoogleReady waits for the identity script and is still active;
\* mounted: the buttons renderGoogleButton was called for, cleaned: those whose
\* cleanup ran, revived: those that rendered or reported after their cleanup
NoButton ==
  [dataSiteId |-> Absent, dataReady |-> Absent, rendered |-> 0, waiting |-> {},
   mounted |-> {}, cleaned |-> {}, revived |-> {}]

Init ==
  /\ hook \in BOOLEAN
  /\ google \in BOOLEAN
  /\ gPromise = "null"
  /\ scriptLoads = 0
  /\ queue = <<>>
  /\ enqueued = 0
  /\ inits = <<>>
  /\ lastConfig = [client_id |-> Null, nonce |-> 0]
  /\ ctl = [c \in Controllers |-> NoController]
  /\ attrs \in {[c \in Controllers |-> NoAttributes],
                [c \in Controllers |-> StaleAttributes]}
  /\ events = [c \in Controllers |-> <<>>]
  /\ notes = [c \in Controllers |->
               [everAuthenticated |-> FALSE, unauthenticatedRun |-> 0,
                lastSignature |-> NoSignature, repeated |-> FALSE]]
  /\ nonceCalls = {}
  /\ nReq = 0
  /\ tasks = <<>>
  /\ exchanges = {}
  /\ calls = 0
  /\ sent = <<>>
  /\ login = NoLogin
  /\ button = NoButton
  /\ step = Step("init", 0, JsNull, Undefined, NoErr)
  /\ authTenantId = Null
  /\ app = LoadingPage(DefaultValues, DefaultChecked)

\* ------------------------------------------------------------- events
Event(type, profile, code, msg, status) ==
  [type |-> type, profile |-> profile, code |-> code, msg |-> msg,
   status |-> status]
AuthenticatedEvent(profile) ==
  Event("mpr-ui:auth:authenticated", profile, "", "", NoStatus)
UnauthenticatedEvent ==
  Event("mpr-ui:auth:unauthenticated", JsNull, "", "", NoStatus)
ErrorEvent(code, msg, status) ==
  Event("mpr-ui:auth:error", JsNull, code, msg, status)

dispatchEvent(w, c, event) ==
  [w EXCEPT
     !.events[c] = Append(@, event),
     !.notes[c] =
       IF event.type = "mpr-ui:auth:authenticated"
         THEN [everAuthenticated |-> TRUE, unauthenticatedRun |-> 0,
               lastSignature |-> Signature(event.profile),
               repeated |-> \/ @.repeated
                            \/ /\ @.everAuthenticated /\ @.unauthenticatedRun = 0
                               /\ @.lastSignature = Signature(event.profile)]
       ELSE IF event.type = "mpr-ui:auth:unauthenticated"
         THEN [@ EXCEPT !.unauthenticatedRun = @ + 1,
                        !.lastSignature = NoSignature]
       ELSE @]

\* emitError that also resets the controller's state
emitErrorResetsState(w, c, code, msg, status) ==
  [dispatchEvent(w, c, ErrorEvent(code, msg, status))
     EXCEPT !.ctl[c].status = "unauthenticated", !.ctl[c].profile = JsNull]

emitError(w, c, code, msg, status) ==
  dispatchEvent(w, c, ErrorEvent(code, msg, status))

\* ------------------------------------------------- the identity bridge
recordGoogleInitializeConfig(w, config) ==
  IF normalizeGoogleSiteId(config.clientId) = Null THEN w
  ELSE [w EXCEPT !.lastConfig =
          [client_id |-> normalizeGoogleSiteId(config.clientId),
           nonce |-> config.nonce]]

\* the pushed object is config, known from now on by its id
enqueueGoogleInitialize(w, config) ==
  LET w1 == recordGoogleInitializeConfig(w, config) IN
  [w1 EXCEPT !.enqueued = @ + 1,
             !.queue = Append(@, [clientId |-> config.clientId,
                                  nonce |-> config.nonce, c |-> config.c,
                                  id |-> w.enqueued + 1])]

\* runGoogleInitializeQueue that initializes the newest config only
runGoogleInitializeQueueNewestOnly(w, googleClient) ==
  IF ~googleClient \/ w.queue = <<>> THEN w
  ELSE [w EXCEPT !.inits = Append(@, w.queue[Len(w.queue)]), !.queue = <<>>]

\* googleClient is global.google, or null: every queued config is shifted and
\* handed to initialize, in order
runGoogleInitializeQueue(w, googleClient) ==
  IF ~googleClient THEN w
  ELSE [w EXCEPT !.inits = @ \o w.queue, !.queue = <<>>]

\* ensureGoogleIdentityClient without the googleIdentityPromise check
ensureGoogleIdentityClientUnguarded(w) ==
  IF w.google THEN runGoogleInitializeQueue(w, TRUE)
  ELSE [w EXCEPT !.gPromise = "pending", !.scriptLoads = @ + 1]

\* The promise's then-callbacks (runGoogleInitializeQueue again) find the queue
\* as this call left it: they run in the same microtask drain when the client is
\* there, and right after onload's own drain when the script was loading.
ensureGoogleIdentityClient(w) ==
  IF w.google THEN runGoogleInitializeQueue(w, TRUE)
  ELSE IF w.gPromise # "null" THEN w
  ELSE [w EXCEPT !.gPromise = "pending", !.scriptLoads = @ + 1]

\* ------------------------------------------------------ the controller
updateDatasetFromProfile(w, c, profile) ==
  LET value(key) == IF IsObject(profile) THEN Get(profile, key) ELSE Null
      k1 == setAttributeOrRemove(w.attrs[w.ctl[c].host], ATTRIBUTE_MAP["user_id"],
                                 value("user_id"))
      k2 == setAttributeOrRemove(k1, ATTRIBUTE_MAP["user_email"], value("user_email"))
      k3 == setAttributeOrRemove(k2, ATTRIBUTE_MAP["display"], value("display"))
      k4 == setAttributeOrRemove(k3, ATTRIBUTE_MAP["avatar_url"], value("avatar_url"))
  IN [w EXCEPT !.attrs[w.ctl[c].host] = k4]

\* markUnauthenticated that leaves state.profile as it was
markUnauthenticatedKeepsProfile(w, c, emit) ==
  LET s == w.ctl[c]
      shouldEmit ==
        emit /\ (\/ s.status # "unauthenticated"
                 \/ s.profile # JsNull
                 \/ ~s.hasEmittedUnauthenticated)
      w1 == [w EXCEPT !.ctl[c].pendingNonceToken = 0,
                      !.ctl[c].status = "unauthenticated",
                      !.ctl[c].lastAuthenticatedSignature = NoSignature]
      w2 == updateDatasetFromProfile(w1, c, JsNull)
  IN IF shouldEmit
       THEN [dispatchEvent(w2, c, UnauthenticatedEvent)
               EXCEPT !.ctl[c].hasEmittedUnauthenticated = TRUE]
       ELSE w2

\* markUnauthenticated that never records that it has emitted
markUnauthenticatedForgetsEmit(w, c, emit) ==
  LET s == w.ctl[c]
      shouldEmit ==
        emit /\ (\/ s.status # "unauthenticated"
                 \/ s.profile # JsNull
                 \/ ~s.hasEmittedUnauthenticated)
      w1 == [w EXCEPT !.ctl[c].pendingNonceToken = 0,
                      !.ctl[c].status = "unauthenticated",
                      !.ctl[c].profile = JsNull,
                      !.ctl[c].lastAuthenticatedSignature = NoSignature]
      w2 == updateDatasetFromProfile(w1, c, JsNull)
  IN IF shouldEmit THEN dispatchEvent(w2, c, UnauthenticatedEvent) ELSE w2

markUnauthenticated(w, c, emit) ==
  LET s == w.ctl[c]
      shouldEmit ==
        emit /\ (\/ s.status # "unauthenticated"
                 \/ s.profile # JsNull
                 \/ ~s.hasEmittedUnauthenticated)
      w1 == [w EXCEPT !.ctl[c].pendingNonceToken = 0,
                      !.ctl[c].status = "unauthenticated",
                      !.ctl[c].profile = JsNull,
                      !.ctl[c].lastAuthenticatedSignature = NoSignature]
      w2 == updateDatasetFromProfile(w1, c, JsNull)
  IN IF shouldEmit
       THEN [dispatchEvent(w2, c, UnauthenticatedEvent)
               EXCEPT !.ctl[c].hasEmittedUnauthenticated = TRUE]
       ELSE w2

\* markAuthenticated that emits on every call
markAuthenticatedAlwaysEmits(w, c, profile) ==
  IF ~IsObject(profile)
    THEN markUnauthenticated(
           emitError(w, c, "mpr-ui.auth.invalid_profile",
                     "markAuthenticated called without valid profile", NoStatus),
           c, TRUE)
  ELSE
    LET w1 == [w EXCEPT !.ctl[c].status = "authenticated",
                        !.ctl[c].profile = profile,
                        !.ctl[c].lastAuthenticatedSignature = Signature(profile),
                        !.ctl[c].hasEmittedUnauthenticated = FALSE,
                        !.ctl[c].pendingNonceToken = 0]
    IN dispatchEvent(updateDatasetFromProfile(w1, c, profile), c,
                     AuthenticatedEvent(profile))

\* markAuthenticated that compares the profiles' user_id, not the serialization
markAuthenticatedComparesUserId(w, c, profile) ==
  IF ~IsObject(profile)
    THEN markUnauthenticated(
           emitError(w, c, "mpr-ui.auth.invalid_profile",
                     "markAuthenticated called without valid profile", NoStatus),
           c, TRUE)
  ELSE
    LET s == w.ctl[c]
        shouldEmit == \/ s.status # "authenticated"
                      \/ Get(s.profile, "user_id") # Get(profile, "user_id")
        w1 == [w EXCEPT !.ctl[c].status = "authenticated",
                        !.ctl[c].profile = profile,
                        !.ctl[c].lastAuthenticatedSignature = Signature(profile),
                        !.ctl[c].hasEmittedUnauthenticated = FALSE,
                        !.ctl[c].pendingNonceToken = 0]
        w2 == updateDatasetFromProfile(w1, c, profile)
    IN IF shouldEmit THEN dispatchEvent(w2, c, AuthenticatedEvent(profile))
       ELSE w2

\* markAuthenticated that also removes the login button's sign-in button
markAuthenticatedCleansButton(w, c, profile) ==
  IF ~IsObject(profile)
    THEN markUnauthenticated(
           emitError(w, c, "mpr-ui.auth.invalid_profile",
                     "markAuthenticated called without valid profile", NoStatus),
           c, TRUE)
  ELSE
    LET s == w.ctl[c]
        signature == Signature(profile)
        shouldEmit == \/ s.status # "authenticated"
                      \/ s.lastAuthenticatedSignature # signature
        w1 == [w EXCEPT !.ctl[c].status = "authenticated",
                        !.ctl[c].profile = profile,
                        !.ctl[c].lastAuthenticatedSignature = signature,
                        !.ctl[c].hasEmittedUnauthenticated = FALSE,
                        !.ctl[c].pendingNonceToken = 0,
                        !.button.rendered = 0,
                        !.button.dataReady = Absent]
        w2 == updateDatasetFromProfile(w1, c, profile)
    IN IF shouldEmit THEN dispatchEvent(w2, c, AuthenticatedEvent(profile))
       ELSE w2

\* markAuthenticated that reports an invalid profile and leaves the state alone
markAuthenticatedKeepsStateOnInvalid(w, c, profile) ==
  IF ~IsObject(profile)
    THEN emitError(w, c, "mpr-ui.auth.invalid_profile",
                   "markAuthenticated called without valid profile", NoStatus)
  ELSE
    LET s == w.ctl[c]
        signature == Signature(profile)
        shouldEmit == \/ s.status # "authenticated"
                      \/ s.lastAuthenticatedSignature # signature
        w1 == [w EXCEPT !.ctl[c].status = "authenticated",
                        !.ctl[c].profile = profile,
                        !.ctl[c].lastAuthenticatedSignature = signature,
                        !.ctl[c].hasEmittedUnauthenticated = FALSE,
                        !.ctl[c].pendingNonceToken = 0]
        w2 == updateDatasetFromProfile(w1, c, profile)
    IN IF shouldEmit THEN dispatchEvent(w2, c, AuthenticatedEvent(profile))
       ELSE w2

\* a variant that only turns away a missing profile
markAuthenticatedAcceptsScalar(w, c, profile) ==
  IF profile = JsNull
    THEN markUnauthenticated(
           emitError(w, c, "mpr-ui.auth.invalid_profile",
                     "markAuthenticated called without valid profile", NoStatus),
           c, TRUE)
  ELSE
    LET signature == Signature(profile)
        w1 == [w EXCEPT !.ctl[c].status = "authenticated",
                        !.ctl[c].profile = profile,
                        !.ctl[c].lastAuthenticatedSignature = signature,
                        !.ctl[c].hasEmittedUnauthenticated = FALSE,
                        !.ctl[c].pendingNonceToken = 0]
    IN dispatchEvent(updateDatasetFromProfile(w1, c, profile), c,
                     AuthenticatedEvent(profile))

markAuthenticated(w, c, profile) ==
  IF ~IsObject(profile)
    THEN markUnauthenticated(
           emitError(w, c, "mpr-ui.auth.invalid_profile",
                     "markAuthenticated called without valid profile", NoStatus),
           c, TRUE)
  ELSE
    LET s == w.ctl[c]
        signature == Signature(profile)
        shouldEmit == \/ s.status # "authenticated"
                      \/ s.lastAuthenticatedSignature # signature
        w1 == [w EXCEPT !.ctl[c].status = "authenticated",
                        !.ctl[c].profile = profile,
                        !.ctl[c].lastAuthenticatedSignature = signature,
                        !.ctl[c].hasEmittedUnauthenticated = FALSE,
                        !.ctl[c].pendingNonceToken = 0]
        w2 == updateDatasetFromProfile(w1, c, profile)
    IN IF shouldEmit THEN dispatchEvent(w2, c, AuthenticatedEvent(profile))
       ELSE w2

\* ---------------------------------------------------------- transport
DEFAULT_OPTIONS ==
  [tauthLoginPath |-> "/auth/google", tauthLogoutPath |-> "/auth/logout",
   tauthNoncePath |-> "/auth/nonce"]

HeaderNames == {"Content-Type", "X-Requested-With", "X-TAuth-Tenant"}
NoHeaders == [h \in HeaderNames |-> Absent]
JsonHeaders ==
  [NoHeaders EXCEPT !["Content-Type"] = "application/json",
                    !["X-Requested-With"] = "XMLHttpRequest"]
XhrHeaders == [NoHeaders EXCEPT !["X-Requested-With"] = "XMLHttpRequest"]

\* withTenantHeader that hands the headers back as given
withTenantHeaderForgetsTenant(w, c, headers) == headers

withTenantHeader(w, c, headers) ==
  [headers EXCEPT !["X-TAuth-Tenant"] = w.ctl[c].tenantId]

\* a transport call: of the host's helper, or of global.fetch; helper tells
\* whether the operation's helper was a function when the operation started
TransportCall(operation, c, helper, transport, path, headers) ==
  [operation |-> operation, c |-> c, helper |-> helper,
   transport |-> transport, method |-> IF transport = "fetch" THEN "POST" ELSE "",
   path |-> path, headers |-> headers, tenant |-> Null]
Send(w, call) == [w EXCEPT !.sent = Append(@, call)]
\* tenant: the tenant the host's session client is configured with when its
\* helper is called
callHelper(w, c, operation) ==
  Send(w, [TransportCall(operation, c, TRUE, "helper", "", NoHeaders)
             EXCEPT !.tenant = w.authTenantId])

\* global.setAuthTenantId is a function: the host's session client is there
configureTenantId(w, c) == [w EXCEPT !.authTenantId = w.ctl[c].tenantId]

requestNonceTokenWithFetch(w, c, helper) ==
  Send(w, TransportCall("requestNonce", c, helper, "fetch",
                        DEFAULT_OPTIONS.tauthNoncePath,
                        withTenantHeader(w, c, JsonHeaders)))
exchangeCredentialWithFetch(w, c, helper) ==
  Send(w, TransportCall("exchangeCredential", c, helper, "fetch",
                        DEFAULT_OPTIONS.tauthLoginPath,
                        withTenantHeader(w, c, JsonHeaders)))
performLogoutWithFetch(w, c, helper) ==
  Send(w, TransportCall("logout", c, helper, "fetch",
                        DEFAULT_OPTIONS.tauthLogoutPath,
                        withTenantHeader(w, c, XhrHeaders)))

Started(w, t) == [t EXCEPT !.seq = w.login.renderSequenceNumber]
AddTask(w, t) == [w EXCEPT !.tasks = Append(@, t)]
DropTask(w, i) == [w EXCEPT !.tasks[i].phase = "done"]
Purge(w) == [w EXCEPT !.tasks = SelectSeq(@, LAMBDA t : t.phase # "done")]

\* requestNonceToken without the nonceRequestPromise check
requestNonceTokenUncoalesced(w0, c, via) ==
  LET w == configureTenantId(w0, c)
      id == w.nReq + 1
      w1 == IF via = "helper" THEN callHelper(w, c, "requestNonce")
            ELSE requestNonceTokenWithFetch(w, c, FALSE)
  IN [w1 EXCEPT !.nReq = id,
                !.ctl[c].nonceRequestPromise = id,
                !.nonceCalls = @ \cup {[id |-> id, c |-> c, via |-> via]}]

\* via: whether global.requestNonce is a function when the request starts
requestNonceToken(w0, c, via) ==
  LET w == configureTenantId(w0, c) IN
  IF w.ctl[c].nonceRequestPromise # 0 THEN w
  ELSE LET id == w.nReq + 1
           w1 == IF via = "helper" THEN callHelper(w, c, "requestNonce")
                 ELSE requestNonceTokenWithFetch(w, c, FALSE)
       IN [w1 EXCEPT !.nReq = id,
                     !.ctl[c].nonceRequestPromise = id,
                     !.nonceCalls = @ \cup {[id |-> id, c |-> c, via |-> via]}]

configureGoogleNonce(w, c, nonceToken) ==
  LET w1 == [w EXCEPT !.ctl[c].pendingNonceToken = nonceToken]
      w2 == enqueueGoogleInitialize(
              w1, [clientId |-> w.ctl[c].googleClientId, nonce |-> nonceToken,
                   c |-> c])
  IN ensureGoogleIdentityClient(w2)

\* origin: "prime" (construction) or "api" (prepareGoogleNonce)
prepareGooglePromptNonce(w, c, origin, via) ==
  IF w.ctl[c].pendingNonceToken # 0
    THEN configureGoogleNonce(w, c, w.ctl[c].pendingNonceToken)
  ELSE LET w1 == requestNonceToken(w, c, via) IN
       AddTask(w1, Task("prepare", c, "await", w1.ctl[c].nonceRequestPromise,
                        0, Undefined, origin))

primeGoogleNonce(w, c, via) == prepareGooglePromptNonce(w, c, "prime", via)

\* bootstrapSession that notifies when there is no hook
bootstrapSessionNotifies(w, c) ==
  IF ~w.hook THEN markUnauthenticated(w, c, TRUE)
  ELSE AddTask([configureTenantId(w, c) EXCEPT !.ctl[c].hooked = TRUE],
               Task("bootstrap", c, "pending", 0, 0, Undefined, "hook"))

bootstrapSession(w, c) ==
  IF ~w.hook THEN markUnauthenticated(w, c, FALSE)
  ELSE AddTask([configureTenantId(w, c) EXCEPT !.ctl[c].hooked = TRUE],
               Task("bootstrap", c, "pending", 0, 0, Undefined, "hook"))

Truthy(v) == v.t # "null"

\* Object.assign({}, target, source)
ObjectAssign(target, source) ==
  LET has(v, k) == \E i \in 1..Len(v.props) : v.props[i][1] = k
      kept == [i \in 1..Len(target.props) |->
                 IF has(source, target.props[i][1])
                   THEN <<target.props[i][1], Get(source, target.props[i][1])>>
                   ELSE target.props[i]]
      added == SelectSeq(source.props, LAMBDA p : ~has(target, p[1]))
  IN Obj(kept \o added)

onAuthenticated(w, c, profile) ==
  LET pendingProfile == w.ctl[c].pendingProfile
      resolvedProfile ==
        IF Truthy(profile) /\ Truthy(pendingProfile)
          THEN ObjectAssign(pendingProfile, profile)
        ELSE IF Truthy(profile) THEN profile
        ELSE IF Truthy(pendingProfile) THEN pendingProfile
        ELSE JsNull
  IN markAuthenticated([w EXCEPT !.ctl[c].pendingProfile = JsNull], c,
                       resolvedProfile)

onUnauthenticated(w, c) ==
  markUnauthenticated([w EXCEPT !.ctl[c].pendingProfile = JsNull], c, TRUE)

\* the then-callback of exchangeCredential: the transport call is made with
\* {credential, nonceToken}
Uses(carried, nonceToken) ==
  IF \E x \in carried : x.tok = nonceToken
    THEN (CHOOSE x \in carried : x.tok = nonceToken).uses
    ELSE 0

sendExchange(w, i, nonceToken, via) ==
  [(IF via = "helper" THEN callHelper(w, w.tasks[i].c, "exchangeCredential")
    ELSE exchangeCredentialWithFetch(w, w.tasks[i].c, FALSE))
     EXCEPT !.tasks[i].phase = via,
            !.tasks[i].tok = nonceToken,
            !.exchanges =
               {x \in @ : x.tok # nonceToken}
                 \cup {[tok |-> nonceToken, uses |-> Uses(@, nonceToken) + 1]}]

exchangeCredential(w0, c, credential, viaNonce, viaExchange) ==
  LET w == configureTenantId(w0, c) IN
  IF w.ctl[c].pendingNonceToken # 0
    THEN LET w1 == [w EXCEPT !.ctl[c].pendingNonceToken = 0]
             w2 == AddTask(w1, Started(w, Task("exchange", c, "await", 0, 0,
                                               credential, "api")))
         IN sendExchange(w2, Len(w2.tasks), w.ctl[c].pendingNonceToken, viaExchange)
  ELSE LET w1 == requestNonceToken(w, c, viaNonce) IN
       AddTask(w1, Started(w, Task("exchange", c, "await",
                                   w1.ctl[c].nonceRequestPromise,
                                   0, credential, "api")))

\* the catch of handleCredential without the status
exchangeFailedDropsStatus(w, c, error) ==
  markUnauthenticated(
    emitError(w, c, "mpr-ui.auth.exchange_failed", error.msg, NoStatus), c, TRUE)

\* the catch of handleCredential that reports and leaves the state alone
exchangeFailedReportsOnly(w, c, error) ==
  emitError(w, c, "mpr-ui.auth.exchange_failed", error.msg, StatusOrNull(error))

\* the catch of handleCredential
exchangeFailed(w, c, error) ==
  markUnauthenticated(
    emitError(w, c, "mpr-ui.auth.exchange_failed", error.msg, StatusOrNull(error)),
    c, TRUE)

\* handleCredential that checks the response only, not its credential
handleCredentialChecksResponseOnly(w, c, credentialResponse, viaNonce, viaExchange) ==
  IF credentialResponse = Undefined
    THEN markUnauthenticated(
           emitError(w, c, "mpr-ui.auth.missing_credential", "", NoStatus), c, TRUE)
  ELSE exchangeCredential(w, c, credentialResponse, viaNonce, viaExchange)

handleCredential(w, c, credentialResponse, viaNonce, viaExchange) ==
  IF ~HasCredential(credentialResponse)
    THEN markUnauthenticated(
           emitError(w, c, "mpr-ui.auth.missing_credential", "", NoStatus), c, TRUE)
  ELSE exchangeCredential(w, c, credentialResponse, viaNonce, viaExchange)

\* performLogout: global.logout() when it is a function, else the fetch
performLogout(w0, c, via) ==
  LET w == configureTenantId(w0, c) IN
  AddTask(IF via = "helper" THEN callHelper(w, c, "logout")
          ELSE performLogoutWithFetch(w, c, FALSE),
          Task("logout", c, via, 0, 0, Undefined, "api"))

\* the then-callback of signOut
signedOut(w, c) ==
  LET w1 == [w EXCEPT !.ctl[c].pendingProfile = JsNull] IN
  IF ~w.hook THEN markUnauthenticated(w1, c, TRUE)
  ELSE bootstrapSession(w1, c)

\* ------------------------------------------------ the sign-in button
\* dispatchEvent(loginElement, "mpr-login:error", detail)
loginError(w, code) == [w EXCEPT !.login.errors = Append(@, code)]

\* a cleanup that empties the container and leaves isActive as it was
cleanupGoogleButtonKeepsActive(w, id) ==
  [w EXCEPT !.button.rendered = 0,
            !.button.dataReady = Absent,
            !.button.cleaned = @ \cup {id}]

\* the cleanup renderGoogleButton returned for button `id`: isActive is false
\* from now on, so the button's callbacks return at once
cleanupGoogleButton(w, id) ==
  [w EXCEPT !.button.waiting = @ \ {id},
            !.button.rendered = 0,
            !.button.dataReady = Absent,
            !.button.cleaned = @ \cup {id}]

\* button `id` renders or reports an error
Acts(w, id) ==
  [w EXCEPT !.button.revived = IF id \in w.button.cleaned THEN @ \cup {id} ELSE @]

\* handleGoogleReady of an active button; googleClient: it has accounts.id
handleGoogleReady(w, id, googleClient) ==
  IF googleClient
    THEN [Acts(runGoogleInitializeQueue(w, TRUE), id)
            EXCEPT !.button.rendered = id,
                   !.button.dataReady = "true",
                   !.button.waiting = @ \ {id}]
  ELSE [Acts(loginError(w, "mpr-ui.google_unavailable"), id)
          EXCEPT !.button.waiting = @ \ {id}]

\* handleGoogleFailure of an active button
handleGoogleFailure(w, id) ==
  [Acts(loginError(w, "mpr-ui.google_script_failed"), id)
     EXCEPT !.button.waiting = @ \ {id}]

\* renderGoogleButton(container, siteId, ...) of the login button, siteId a
\* normalized id; the callbacks on ensureGoogleIdentityClient's promise run in
\* this task when the promise is settled, else they wait for the script
renderGoogleButton(w, id, siteId) ==
  LET w1 == [w EXCEPT !.button.dataSiteId = siteId,
                      !.button.mounted = @ \cup {id}]
      w2 == ensureGoogleIdentityClient(w1)
  IN IF w.google THEN handleGoogleReady(w2, id, TRUE)
     ELSE IF w2.gPromise = "pending"
       THEN [w2 EXCEPT !.button.waiting = @ \cup {id}]
     ELSE IF w2.gPromise = "resolved" THEN handleGoogleReady(w2, id, FALSE)
     ELSE handleGoogleFailure(w2, id)

\* the waiting buttons' callbacks when the script's promise settles
RECURSIVE googleSettled(_, _)
googleSettled(w, outcome) ==
  IF w.button.waiting = {} THEN w
  ELSE LET id == CHOOSE i \in w.button.waiting : \A j \in w.button.waiting : i <= j
       IN googleSettled(
            IF outcome = "rejected" THEN handleGoogleFailure(w, id)
            ELSE handleGoogleReady(w, id, outcome = "ready"),
            outcome)

\* the then-callback of render `seq` on prepareGoogleNonce's promise
handleNoncePrepared(w, seq, siteId) ==
  IF ~w.login.connected \/ w.login.renderSequenceNumber # seq THEN w
  ELSE [renderGoogleButton(w, seq, siteId) EXCEPT !.login.googleCleanup = seq]

\* its catch-callback
handleNonceFailure(w, seq, error) ==
  IF ~w.login.connected \/ w.login.renderSequenceNumber # seq THEN w
  ELSE [loginError(w, "mpr-ui.auth.nonce_failed")
          EXCEPT !.login.dataError = "nonce-failed"]

\* ---------------------------------------- the waiters of a nonce request
\* The then-callbacks registered on nonceRequestPromise `id` run in the order
\* they were registered: prepareGooglePromptNonce's configures the identity
\* client, exchangeCredential's sends the exchange.
RECURSIVE nonceResolvedFrom(_, _, _, _, _)
nonceResolvedFrom(w, i, id, nonceToken, viaExchange) ==
  IF i > Len(w.tasks) THEN w
  ELSE LET t == w.tasks[i] IN
    IF t.phase # "await" \/ t.req # id
      THEN nonceResolvedFrom(w, i + 1, id, nonceToken, viaExchange)
    ELSE IF t.kind = "prepare"
      THEN nonceResolvedFrom(
             LET w1 == configureGoogleNonce(DropTask(w, i), t.c, nonceToken)
             IN IF t.origin = "widget" THEN handleNoncePrepared(w1, t.seq, t.siteId)
                ELSE w1,
             i + 1, id, nonceToken, viaExchange)
    ELSE nonceResolvedFrom(sendExchange(w, i, nonceToken, viaExchange),
                           i + 1, id, nonceToken, viaExchange)

\* A rejection reaches primeGoogleNonce's catch one promise earlier than
\* handleCredential's catch: the "prepare" waiters are served first.
RECURSIVE nonceRejectedFrom(_, _, _, _, _)
nonceRejectedFrom(w, i, id, error, kind) ==
  IF i > Len(w.tasks) THEN w
  ELSE LET t == w.tasks[i] IN
    IF t.phase # "await" \/ t.req # id \/ t.kind # kind
      THEN nonceRejectedFrom(w, i + 1, id, error, kind)
    ELSE IF t.kind = "prepare"
      THEN nonceRejectedFrom(
             IF t.origin = "prime"
               THEN emitError(DropTask(w, i), t.c, "mpr-ui.auth.nonce_failed",
                              error.msg, StatusOrNull(error))
             ELSE IF t.origin = "widget"
               THEN handleNonceFailure(DropTask(w, i), t.seq, error)
             ELSE DropTask(w, i),
             i + 1, id, error, kind)
    ELSE nonceRejectedFrom(exchangeFailed(DropTask(w, i), t.c, error),
                           i + 1, id, error, kind)

\* a finally that leaves nonceRequestPromise as it is
nonceSettledKeepsReference(w, n) == [w EXCEPT !.nonceCalls = @ \ {n}]

\* the finally of requestNonceToken
nonceSettled(w, n) ==
  [w EXCEPT !.ctl[n.c].nonceRequestPromise = 0, !.nonceCalls = @ \ {n}]

\* ------------------------------------------------------------- actions
Built(c) == ctl[c].built
Vias == {"helper", "fetch"}

\* createAuthHeader that requires the client id only
createAuthHeaderRequiresClientIdOnly(w, c, rootElement, clientId, tenantId, via) ==
  IF normalizeGoogleSiteId(clientId) = Null THEN w
  ELSE
    LET w0 == [w EXCEPT
                 !.ctl[c].built = TRUE,
                 !.ctl[c].host = rootElement,
                 !.ctl[c].googleClientId = normalizeGoogleSiteId(clientId),
                 !.ctl[c].tenantId = normalizeTenantId(tenantId)]
        w1 == markUnauthenticated(w0, c, FALSE)
        w2 == bootstrapSession(w1, c)
    IN primeGoogleNonce(w2, c, via)

\* c: the closure that is created; a throw of requireGoogleSiteId or
\* requireTenantId leaves w as it is
createAuthHeader(w, c, rootElement, clientId, tenantId, via) ==
  IF normalizeGoogleSiteId(clientId) = Null \/ normalizeTenantId(tenantId) = Null
    THEN w
  ELSE
    LET w0 == [w EXCEPT
                 !.ctl[c].built = TRUE,
                 !.ctl[c].host = rootElement,
                 !.ctl[c].googleClientId = normalizeGoogleSiteId(clientId),
                 !.ctl[c].tenantId = normalizeTenantId(tenantId)]
        w1 == markUnauthenticated(w0, c, FALSE)
        w2 == bootstrapSession(w1, c)
    IN primeGoogleNonce(w2, c, via)

\* ------------------------------------------- the mpr-login-button element
\* the host element of the login button's controllers
LoginHost == 1

\* getAttribute(name) || ""
AttributeOrDefault(value) == IF value = Absent THEN "" ELSE value

\* __renderLoginButton; cNew: the closure createAuthHeader would create;
\* via, viaLogout: whether the nonce and the logout helper are functions
renderLoginButton(w, cNew, via, viaLogout) ==
  IF ~w.login.connected THEN w
  ELSE
    LET w0 == [w EXCEPT !.login.googleHost = TRUE,
                        !.login.superseded = @ \cup {w.login.renderSequenceNumber}]
        siteId == normalizeGoogleSiteId(AttributeOrDefault(w.login.siteId))
        tenantId == normalizeTenantId(AttributeOrDefault(w.login.tenantId))
        cleaned(x) == IF x.login.googleCleanup # 0
                        THEN [cleanupGoogleButton(x, x.login.googleCleanup)
                                EXCEPT !.login.googleCleanup = 0]
                      ELSE x
    IN IF siteId = Null \/ tenantId = Null
         THEN
           LET w1 == IF w0.login.authController # 0
                       THEN performLogout(w0, w0.login.authController, viaLogout)
                     ELSE w0
               w2 == cleaned([w1 EXCEPT !.login.authController = 0])
           IN loginError(
                [w2 EXCEPT !.login.googleHost = FALSE,
                           !.login.dataSiteId = Absent,
                           !.login.dataError =
                              IF siteId = Null THEN "missing-site-id"
                              ELSE "missing-tauth-tenant-id"],
                IF siteId = Null THEN "mpr-ui.google_site_id_required"
                ELSE "mpr-ui.tenant_id_required")
       ELSE
         LET w1 == [w0 EXCEPT !.login.dataError = Absent,
                              !.login.dataSiteId = siteId]
             w2 == IF w1.login.authController = 0
                     THEN [createAuthHeader(w1, cNew, LoginHost, siteId, tenantId, via)
                             EXCEPT !.login.authController = cNew]
                   ELSE w1
             w3 == cleaned(w2)
             n == w3.login.renderSequenceNumber + 1
             w4 == [w3 EXCEPT !.login.renderSequenceNumber = n]
             c == w4.login.authController
             w5 == prepareGooglePromptNonce(w4, c, "widget", via)
         IN IF w4.ctl[c].pendingNonceToken # 0
              THEN handleNoncePrepared(w5, n, siteId)
            ELSE [w5 EXCEPT !.tasks[Len(w5.tasks)].seq = n,
                            !.tasks[Len(w5.tasks)].siteId = siteId]

\* destroy
destroy(w) ==
  LET w1 == IF w.login.googleCleanup # 0
              THEN cleanupGoogleButton(w, w.login.googleCleanup)
            ELSE w
  IN [w1 EXCEPT !.login.googleCleanup = 0, !.login.authController = 0,
                !.login.googleHost = FALSE]

Construct(c) ==
  /\ ~Built(c)
  /\ \E clientId \in ClientIdInputs, tenantId \in TenantIdInputs(c), via \in Vias :
       LET w1 == createAuthHeader(Now, c, c, clientId, tenantId, via)
           op == IF w1.ctl[c].built THEN "construct" ELSE "constructThrow"
       IN Commit([w1 EXCEPT !.step =
                    [Step(op, c, JsNull, Undefined, NoErr) EXCEPT
                       !.input = [googleClientId |-> clientId,
                                  tenantId |-> tenantId]]])

Called(w) == [w EXCEPT !.calls = @ + 1]

PrepareGoogleNonce(c) ==
  /\ Built(c) /\ calls < MaxCalls
  /\ \E via \in Vias :
       Commit(Did(Called(prepareGooglePromptNonce(Now, c, "api", via)),
                  "prepareGoogleNonce", c, JsNull, Undefined, NoErr))

HandleCredential(c) ==
  /\ Built(c) /\ calls < MaxCalls
  /\ \E response \in CredentialInputs, viaNonce \in Vias, viaExchange \in Vias :
       Commit(Did(Called(handleCredential(Now, c, response, viaNonce, viaExchange)),
                  "handleCredential", c, JsNull, response, NoErr))

SignOut(c) ==
  /\ Built(c) /\ calls < MaxCalls
  /\ \E via \in Vias :
       Commit(Did(Called(performLogout(Now, c, via)),
                  "signOut", c, JsNull, Undefined, NoErr))

RestartSessionWatcher(c) ==
  /\ Built(c) /\ calls < MaxCalls
  /\ Commit(Did(Called(bootstrapSession(Now, c)),
                "restartSessionWatcher", c, JsNull, Undefined, NoErr))

\* the session hook calls the callbacks it was given
HookAuthenticated(c) ==
  /\ ctl[c].hooked /\ calls < MaxCalls
  /\ \E profile \in ProfileValues :
       Commit(Did(Called(onAuthenticated(Now, c, profile)),
                  "onAuthenticated", c, profile, Undefined, NoErr))

HookUnauthenticated(c) ==
  /\ ctl[c].hooked /\ calls < MaxCalls
  /\ Commit(Did(Called(onUnauthenticated(Now, c)),
                "onUnauthenticated", c, JsNull, Undefined, NoErr))

\* the promise initAuthClient returned settles
BootstrapResolved(i) ==
  /\ tasks[i].kind = "bootstrap"
  /\ Commit(Did(Purge(DropTask(Now, i)), "bootstrapResolved", tasks[i].c,
                JsNull, Undefined, NoErr))

BootstrapRejected(i) ==
  /\ tasks[i].kind = "bootstrap"
  /\ \E error \in {Err("init failed", NoStatus)} :
       Commit(Did(Purge(emitError(DropTask(Now, i), tasks[i].c,
                                  "mpr-ui.auth.bootstrap_failed", error.msg, NoStatus)),
                  "bootstrapRejected", tasks[i].c, JsNull, Undefined, error))

\* the nonce transport answers with a token: the request's own, fresh one
NonceResolved(n) ==
  \E viaExchange \in Vias :
    Commit(Did(Purge(nonceResolvedFrom(nonceSettled(Now, n), 1, n.id, n.id,
                                       viaExchange)),
               "nonceResolved", n.c, JsNull, Undefined, NoErr))

NonceRejected(n) ==
  \E error \in (IF n.via = "helper" THEN HelperErrors ELSE NonceFetchErrors) :
    IF n.via = "helper" /\ shouldFallbackToFetch(error)
      THEN Commit(Did([requestNonceTokenWithFetch(Now, n.c, TRUE)
                         EXCEPT !.nonceCalls =
                           (@ \ {n}) \cup {[n EXCEPT !.via = "fetch"]}],
                      "nonceFallback", n.c, JsNull, Undefined, error))
    ELSE
      LET w1 == nonceRejectedFrom(nonceSettled(Now, n), 1, n.id, error, "prepare")
          w2 == nonceRejectedFrom(w1, 1, n.id, error, "exchange")
      IN Commit(Did(Purge(w2), "nonceRejected", n.c, JsNull, Undefined, error))

InExchange(i) == tasks[i].kind = "exchange" /\ tasks[i].phase \in Vias

ExchangeResolved(i) ==
  /\ InExchange(i)
  /\ \E profile \in ProfileValues :
       Commit([Did(Purge(markAuthenticated(DropTask(Now, i), tasks[i].c, profile)),
                   "exchangeResolved", tasks[i].c, profile, tasks[i].cred, NoErr)
                 EXCEPT !.step.seq = tasks[i].seq])

ExchangeRejected(i) ==
  /\ InExchange(i)
  /\ \E error \in (IF tasks[i].phase = "helper" THEN HelperErrors
                   ELSE ExchangeFetchErrors) :
       IF tasks[i].phase = "helper" /\ shouldFallbackToFetch(error)
         THEN Commit(Did([exchangeCredentialWithFetch(Now, tasks[i].c, TRUE)
                            EXCEPT !.tasks[i].phase = "fetch"],
                         "exchangeFallback", tasks[i].c, JsNull, tasks[i].cred, error))
       ELSE Commit([Did(Purge(exchangeFailed(DropTask(Now, i), tasks[i].c, error)),
                        "exchangeRejected", tasks[i].c, JsNull, tasks[i].cred, error)
                      EXCEPT !.step.seq = tasks[i].seq])

\* the logout transport resolves (the fetch resolves with any response)
LogoutResolved(i) ==
  /\ tasks[i].kind = "logout"
  /\ Commit(Did(Purge(signedOut(DropTask(Now, i), tasks[i].c)),
                "logoutResolved", tasks[i].c, JsNull, Undefined, NoErr))

\* it rejects: the helper's rejection falls back to the fetch or is swallowed,
\* the direct fetch's is swallowed, the fallback fetch's rejects signOut
LogoutRejected(i) ==
  /\ tasks[i].kind = "logout"
  /\ \E error \in (IF tasks[i].phase = "helper" THEN HelperErrors
                   ELSE {Err("Failed to fetch", NoStatus)}) :
       IF tasks[i].phase = "helper" /\ shouldFallbackToFetch(error)
         THEN Commit(Did([performLogoutWithFetch(Now, tasks[i].c, TRUE)
                            EXCEPT !.tasks[i].phase = "fallback"],
                         "logoutFallback", tasks[i].c, JsNull, Undefined, error))
       ELSE IF tasks[i].phase = "fallback"
         THEN Commit(Did(Purge(DropTask(Now, i)),
                         "signOutRejected", tasks[i].c, JsNull, Undefined, error))
       ELSE Commit(Did(Purge(signedOut(DropTask(Now, i), tasks[i].c)),
                       "logoutSwallowed", tasks[i].c, JsNull, Undefined, error))

\* scriptElement.onload: global.google is there, or is not
ScriptLoaded ==
  /\ gPromise = "pending"
  /\ \E defined \in BOOLEAN :
       Commit(Did(googleSettled(
                    runGoogleInitializeQueue(
                      [Now EXCEPT !.gPromise = "resolved", !.google = defined],
                      defined),
                    IF defined THEN "ready" ELSE "unavailable"),
                  "scriptLoaded", 0, JsNull, Undefined, NoErr))

\* scriptElement.onerror
ScriptError ==
  /\ gPromise = "pending"
  /\ Commit(Did(googleSettled([Now EXCEPT !.gPromise = "rejected"], "rejected"),
                "scriptError", 0, JsNull, Undefined, NoErr))

Operate(c) ==
  \/ PrepareGoogleNonce(c)
  \/ HandleCredential(c)
  \/ SignOut(c)
  \/ RestartSessionWatcher(c)
  \/ HookAuthenticated(c)
  \/ HookUnauthenticated(c)

Settle ==
  \/ \E i \in 1..Len(tasks) : BootstrapResolved(i)
  \/ \E i \in 1..Len(tasks) : BootstrapRejected(i)
  \/ \E n \in nonceCalls : NonceResolved(n)
  \/ \E n \in nonceCalls : NonceRejected(n)
  \/ \E i \in 1..Len(tasks) : ExchangeResolved(i)
  \/ \E i \in 1..Len(tasks) : ExchangeRejected(i)
  \/ \E i \in 1..Len(tasks) : LogoutResolved(i)
  \/ \E i \in 1..Len(tasks) : LogoutRejected(i)
  \/ ScriptLoaded
  \/ ScriptError

\* one controller on the page
Next ==
  \/ Construct(1)
  \/ Operate(1)
  \/ Settle

Spec == Init /\ [][Next]_vars

\* two controllers on the page (a header and a login button, say), each
\* constructed and asked for nonces by its widget
NextPage ==
  \/ \E c \in Controllers : Construct(c)
  \/ \E c \in Controllers : PrepareGoogleNonce(c)
  \/ \E i \in 1..Len(tasks) : BootstrapResolved(i)
  \/ \E i \in 1..Len(tasks) : BootstrapRejected(i)
  \/ \E n \in nonceCalls : NonceResolved(n)
  \/ \E n \in nonceCalls : NonceRejected(n)
  \/ ScriptLoaded
  \/ ScriptError

SpecPage == Init /\ [][NextPage]_vars

\* ------------------------------------- the login button's lifecycle
\* the closure the next createAuthHeader creates
Unbuilt == {c \in Controllers : ~Built(c)}
NextController == CHOOSE c \in Unbuilt : \A d \in Unbuilt : c <= d
\* the values an observed attribute is set to (Absent: it is removed)
SiteIdAttributes == {Absent, "abc"}
TenantIdAttributes == {Absent, "t1"}

\* connectedCallback
Connected ==
  /\ ~login.connected /\ Unbuilt # {}
  /\ \E via \in Vias :
       Commit(Did(renderLoginButton([Now EXCEPT !.login.connected = TRUE],
                                    NextController, via, via),
                  "connectedCallback", 0, JsNull, Undefined, NoErr))

\* disconnectedCallback
Disconnected ==
  /\ login.connected /\ calls < MaxCalls
  /\ Commit(Did(Called(destroy(
                   [Now EXCEPT !.login.connected = FALSE,
                               !.login.superseded =
                                  @ \cup {login.renderSequenceNumber}])),
                "disconnectedCallback", 0, JsNull, Undefined, NoErr))

\* attributeChangedCallback after site-id or tauth-tenant-id was set or removed
AttributeChanged ==
  /\ calls < MaxCalls
  /\ login.authController # 0 \/ Unbuilt # {}
  /\ \E siteId \in SiteIdAttributes, tenantId \in TenantIdAttributes,
        via \in Vias, viaLogout \in Vias :
       /\ siteId = login.siteId \/ tenantId = login.tenantId
       /\ Commit(Did(Called(renderLoginButton(
                              [Now EXCEPT !.login.siteId = siteId,
                                          !.login.tenantId = tenantId],
                              IF Unbuilt # {} THEN NextController ELSE 0,
                              via, viaLogout)),
                     "attributeChangedCallback", 0, JsNull, Undefined, NoErr))

\* the identity client hands a credential to the callback of the config it was
\* initialized with: handleCredential of the controller that queued it
CredentialCallback ==
  \E c \in Controllers : HandleCredential(c)

\* a page with one login button and no session hook
InitLogin == Init /\ ~hook /\ attrs = [c \in Controllers |-> NoAttributes]

NextLogin ==
  \/ Connected
  \/ Disconnected
  \/ AttributeChanged
  \/ CredentialCallback
  \/ \E n \in nonceCalls : NonceResolved(n)
  \/ \E n \in nonceCalls : NonceRejected(n)
  \/ \E i \in 1..Len(tasks) : ExchangeResolved(i)
  \/ \E i \in 1..Len(tasks) : ExchangeRejected(i)
  \/ \E i \in 1..Len(tasks) : LogoutResolved(i)
  \/ \E i \in 1..Len(tasks) : LogoutRejected(i)
  \/ ScriptLoaded
  \/ ScriptError

SpecLogin == InitLogin /\ [][NextLogin]_vars

\* ------------------------------------- the comparison page's listeners
\* what the comparison page leaves alone
controllerVars ==
  <<hook, google, gPromise, scriptLoads, queue, enqueued, inits, lastConfig,
    ctl, attrs, events, notes, nonceCalls, nReq, tasks, exchanges, calls, sent,
    login, button, step, authTenantId>>

\* loadDefaultDataset: both files arrived
DatasetLoaded ==
  /\ app.fetch = "pending"
  /\ app' = datasetLoaded([Listening(app, "datasetLoaded")
                             EXCEPT !.fetch = "settled"])
  /\ UNCHANGED controllerVars

\* loadDefaultDataset: a file did not arrive; the catch logs to the console
DatasetFailed ==
  /\ app.fetch = "pending"
  /\ app' = [Listening(app, "datasetFailed") EXCEPT !.fetch = "settled"]
  /\ UNCHANGED controllerVars

\* the user clicks the checkbox of a listed jurisdiction
CheckboxChange(j) ==
  /\ j \in DOMAIN app.selectionList
  /\ LET checked == ~app.selectionList[j].checked
         name == app.selectionList[j].name
         p == [Listening(app, "checkboxChange")
                 EXCEPT !.selectionList[j].checked = checked]
     IN app' = recomputeAndRender(
                 [p EXCEPT !.selectedJurisdictions =
                    IF checked THEN @ \cup {name} ELSE @ \ {name}])
  /\ UNCHANGED controllerVars

\* without a dataset the listener throws reading dataset.jurisdictions
SelectAllClicked ==
  /\ LET p == Listening(app, "selectAll")
     IN app' = IF p.dataset = "null" THEN [p EXCEPT !.threw = TRUE]
               ELSE recomputeAndRender(renderSelectionList(
                      [p EXCEPT !.selectedJurisdictions =
                         @ \cup {Dataset[j].name : j \in Jurisdictions}]))
  /\ UNCHANGED controllerVars

SelectNoneClicked ==
  /\ app' = recomputeAndRender(renderSelectionList(
              [Listening(app, "selectNone")
                 EXCEPT !.selectedJurisdictions = {}]))
  /\ UNCHANGED controllerVars

RecomputeClicked ==
  /\ app' = recomputeAndRender(Listening(app, "recompute"))
  /\ UNCHANGED controllerVars

ResetClicked ==
  /\ app' = resetDefaults(Listening(app, "reset"))
  /\ UNCHANGED controllerVars

\* the user moves a weight slider
WeightInput(id, v) ==
  /\ id \in WeightControls
  /\ v # app.value[id]
  /\ app' = setSliderLabels([Listening(app, "input") EXCEPT !.value[id] = v])
  /\ UNCHANGED controllerVars

\* the user commits a value of a control
ValueChange(id, v) ==
  /\ app' = recomputeAndRender(setSliderLabels(
              [Listening(app, "change") EXCEPT !.value[id] = v]))
  /\ UNCHANGED controllerVars

\* the user clicks a goal checkbox
GoalChange(id) ==
  /\ app' = recomputeAndRender(setSliderLabels(
              [Listening(app, "change") EXCEPT !.checked[id] = ~@]))
  /\ UNCHANGED controllerVars

InitCompare == Init /\ ~hook /\ ~google /\ attrs = [c \in Controllers |-> NoAttributes]

NextCompare ==
  \/ DatasetLoaded
  \/ DatasetFailed
  \/ \E j \in CheckboxInputs : CheckboxChange(j)
  \/ SelectAllClicked
  \/ SelectNoneClicked
  \/ RecomputeClicked
  \/ ResetClicked
  \/ \E id \in WeightControls : \E v \in ValueInputs(id) : WeightInput(id, v)
  \/ \E id \in ValueControls : \E v \in ValueInputs(id) : ValueChange(id, v)
  \/ \E id \in GoalInputs : GoalChange(id)

SpecCompare == InitCompare /\ [][NextCompare]_vars

\* ------------------------------------------- transports that answer
\* a transport call in flight is answered
TransportSettles ==
  \/ \E n \in nonceCalls : NonceResolved(n)
  \/ \E n \in nonceCalls : NonceRejected(n)
  \/ \E i \in 1..Len(tasks) : ExchangeResolved(i)
  \/ \E i \in 1..Len(tasks) : ExchangeRejected(i)

\* one controller on a page without a session hook that is handed
\* credentials, while the identity script is still loading
InitExchange ==
  Init /\ ~hook /\ ~google /\ attrs = [c \in Controllers |-> NoAttributes]

NextExchange ==
  \/ Construct(1)
  \/ HandleCredential(1)
  \/ TransportSettles

SpecExchange ==
  InitExchange /\ [][NextExchange]_vars /\ WF_vars(TransportSettles)

\* ------------------------------------ a page without a session hook
\* restartSessionWatcher where global.initAuthClient is no function: it starts
\* nothing, so the host may call it any number of times
SessionWatcherRestarted(c) ==
  /\ Built(c) /\ ~hook
  /\ Commit(Did(bootstrapSession(Now, c),
                "restartSessionWatcher", c, JsNull, Undefined, NoErr))

NextRestart ==
  \/ Construct(1)
  \/ HandleCredential(1)
  \/ SessionWatcherRestarted(1)
  \/ \E n \in nonceCalls : NonceResolved(n)
  \/ \E n \in nonceCalls : NonceRejected(n)
  \/ \E i \in 1..Len(tasks) : ExchangeResolved(i)
  \/ \E i \in 1..Len(tasks) : ExchangeRejected(i)

SpecRestart == InitExchange /\ [][NextRestart]_vars

\* ------------------------------- two controllers of different tenants
\* two controllers on one page, each of its own tenant, that are handed
\* credentials in any order
NextTenants ==
  \/ \E c \in Controllers : Construct(c)
  \/ \E c \in Controllers : HandleCredential(c)
  \/ TransportSettles

SpecTenants == InitExchange /\ [][NextTenants]_vars


\* ========================================================== properties
Authenticated(c) == ctl[c].status = "authenticated"
OfType(evs, type) == SelectSeq(evs, LAMBDA e : e.type = type)

\* the value the host attribute of profile field `key` is to have
Reflected(profile, key) ==
  IF Get(profile, key) \in {Undefined, Null} THEN Absent
  ELSE IF Get(profile, key) = "#7" THEN "7" ELSE Get(profile, key)

\* C1: in every reachable state of a constructed controller, state.profile is
\* non-null if and only if state.status is "authenticated".
C1_ProfileIffAuthenticated ==
  \A c \in Controllers :
    Built(c) => ((ctl[c].profile # JsNull) <=> Authenticated(c))

\* an authenticated controller with its profile, after an exchange
C1_Witness ==
  /\ step.op = "exchangeResolved" /\ Authenticated(1) /\ ctl[1].profile = PBob

\* C2: within one controller at most one nonce transport request is in flight,
\* and every continuation that waits for a nonce waits for that one request, which
\* is the controller's nonceRequestPromise (a call made while a request is
\* unsettled got the same promise and issued no transport call).
C2_OneNonceRequestInFlight ==
  /\ \A c \in Controllers : Cardinality({n \in nonceCalls : n.c = c}) <= 1
  /\ \A i \in 1..Len(tasks) :
       tasks[i].phase = "await" =>
         /\ tasks[i].req = ctl[tasks[i].c].nonceRequestPromise
         /\ \E n \in nonceCalls : n.id = tasks[i].req /\ n.c = tasks[i].c

\* construction's priming and a handleCredential wait for the same request
C2_Witness ==
  /\ Cardinality(nonceCalls) = 1 /\ nReq = 1
  /\ \E i, j \in 1..Len(tasks) :
       /\ i # j /\ tasks[i].phase = "await" /\ tasks[j].phase = "await"
       /\ tasks[i].kind = "prepare" /\ tasks[j].kind = "exchange"

\* C3: no two credential exchanges carry the same nonce token.
C3_NonceTokenExchangedOnce == \A x \in exchanges : x.uses <= 1

\* C4: the identity script load is started at most once per page.
C4_ScriptLoadedAtMostOnce == scriptLoads <= 1

\* both controllers called ensureGoogleIdentityClient (once per queued config),
\* three times in all, the last after the load had failed
C4_Witness ==
  /\ scriptLoads = 1 /\ gPromise = "rejected" /\ step.op = "prepareGoogleNonce"
  /\ Len(queue) >= 3
  /\ \A c \in Controllers : Built(c) /\ \E i \in 1..Len(queue) : queue[i].c = c

\* C5: handleCredential with a missing or empty credential dispatches an error
\* with code missing_credential, dispatches no authenticated event, issues no
\* nonce or exchange transport call and starts no continuation, and leaves the
\* controller unauthenticated with profile null.
C5_MissingCredential ==
  [][(step'.op = "handleCredential" /\ step'.cred \in {Undefined, ""}) =>
       LET c == step'.c IN
       /\ ctl'[c].status = "unauthenticated" /\ ctl'[c].profile = JsNull
       /\ Len(events'[c]) >= 1
       /\ events'[c][1] = ErrorEvent("mpr-ui.auth.missing_credential", "", NoStatus)
       /\ OfType(events'[c], "mpr-ui:auth:authenticated") = <<>>
       /\ nonceCalls' = nonceCalls /\ nReq' = nReq /\ exchanges' = exchanges
       /\ tasks' = tasks]_vars

\* an authenticated controller was handed an empty credential
C5_Witness ==
  /\ step.op = "handleCredential" /\ step.cred = ""
  /\ notes[1].everAuthenticated
  /\ Len(events[1]) = 2 /\ events[1][2] = UnauthenticatedEvent

\* C6: when the exchange transport fails, an error with code exchange_failed and
\* the failure's status is dispatched and the controller ends unauthenticated
\* with profile null.
C6_ExchangeFailed ==
  [][step'.op = "exchangeRejected" =>
       LET c == step'.c IN
       /\ Len(events'[c]) >= 1
       /\ events'[c][1] = ErrorEvent("mpr-ui.auth.exchange_failed", step'.err.msg,
                                     step'.err.status)
       /\ ctl'[c].status = "unauthenticated" /\ ctl'[c].profile = JsNull]_vars

\* the exchange of an authenticated controller failed with status 500
C6_Witness ==
  /\ step.op = "exchangeRejected" /\ step.err.status = 500
  /\ notes[1].everAuthenticated
  /\ Len(events[1]) = 2 /\ events[1][2] = UnauthenticatedEvent

\* what every successful exchange with an object profile brings about
ExchangedTo(c, profile) ==
  /\ ctl'[c].status = "authenticated" /\ ctl'[c].profile = profile
  /\ \A key \in ProfileKeys :
       attrs'[c][ATTRIBUTE_MAP[key]] = Reflected(profile, key)

\* C7 as stated: a successful exchange with an object profile P sets status
\* authenticated with profile P, reflects P on the host and dispatches an
\* authenticated event carrying P.
C7_AsStated ==
  [][(step'.op = "exchangeResolved" /\ IsObject(step'.val)) =>
       /\ ExchangedTo(step'.c, step'.val)
       /\ events'[step'.c] = << AuthenticatedEvent(step'.val) >>]_vars

\* C7, amended: ... and dispatches an authenticated event carrying P unless the
\* controller was already authenticated with a profile of the same
\* serialization, when it dispatches nothing.
C7_ExchangeSucceeded ==
  [][(step'.op = "exchangeResolved" /\ IsObject(step'.val)) =>
       LET c == step'.c IN
       /\ ExchangedTo(c, step'.val)
       /\ events'[c] =
            IF Authenticated(c) /\ Signature(ctl[c].profile) = Signature(step'.val)
              THEN <<>>
              ELSE << AuthenticatedEvent(step'.val) >>]_vars

\* the scenario of the spec: the exchange answers {user_id: "1", display: "Ann"}
C7_Witness ==
  /\ step.op = "exchangeResolved" /\ step.val = PAnn
  /\ events[1] = << AuthenticatedEvent(PAnn) >>
  /\ attrs[1]["data-user-id"] = "1" /\ attrs[1]["data-user-display"] = "Ann"

\* C8: each data-user-* attribute is present exactly when the controller is
\* authenticated and the profile's field is neither missing nor null.
C8_DatasetReflectsProfile ==
  \A c \in Controllers :
    Built(c) =>
      \A key \in ProfileKeys :
        (attrs[c][ATTRIBUTE_MAP[key]] # Absent) <=>
          (Authenticated(c) /\ Get(ctl[c].profile, key) \notin {Undefined, Null})

\* a profile with a number, a null and an empty string
C8_Witness ==
  /\ Authenticated(1) /\ ctl[1].profile = PBob
  /\ attrs[1]["data-user-id"] = "7" /\ attrs[1]["data-user-display"] = Absent
  /\ attrs[1]["data-user-avatar-url"] = ""

\* a call of markAuthenticated with an object profile
MarksAuthenticated ==
  /\ step'.op \in {"onAuthenticated", "exchangeResolved"}
  /\ IsObject(step'.val)

\* the same properties with the same values, in whatever order
StructurallyIdentical(p, q) ==
  /\ IsObject(p) /\ IsObject(q)
  /\ {p.props[i] : i \in 1..Len(p.props)} = {q.props[i] : i \in 1..Len(q.props)}

C10_UnauthenticatedOnce ==
  \A c \in Controllers :
    ~notes[c].everAuthenticated => notes[c].unauthenticatedRun <= 1

\* the second of two missing credentials: an error, no second unauthenticated
C10_Witness ==
  /\ step.op = "handleCredential" /\ step.cred = Undefined /\ calls = 2
  /\ ~notes[1].everAuthenticated /\ notes[1].unauthenticatedRun = 1
  /\ Len(events[1]) = 1 /\ events[1][1].code = "mpr-ui.auth.missing_credential"

\* the error events with `code` among evs
WithCode(evs, code) == SelectSeq(evs, LAMBDA e : e.code = code)

\* C11: markAuthenticated reached with a profile that is null or not an object
\* (from the exchange's answer or from the session hook) dispatches an error
\* with code invalid_profile, dispatches no authenticated event, and leaves the
\* controller unauthenticated with profile null whatever it was before.
C11_InvalidProfile ==
  [][\A c \in Controllers :
       (/\ step'.op \in {"exchangeResolved", "onAuthenticated"}
        /\ step'.c = c
        /\ ~IsObject(step'.val))
       => /\ ctl'[c].status = "unauthenticated"
          /\ ctl'[c].profile = JsNull
          /\ Len(WithCode(events'[c], "mpr-ui.auth.invalid_profile")) = 1
          /\ OfType(events'[c], "mpr-ui:auth:authenticated") = <<>>]_vars

\* the hook authenticated the controller with a valid profile and then hands
\* over a string: the error and the unauthenticated event leave together
C11_Witness ==
  /\ step.op = "onAuthenticated" /\ step.val = JsScalar /\ calls = 2
  /\ notes[1].everAuthenticated
  /\ ctl[1].status = "unauthenticated" /\ ctl[1].profile = JsNull
  /\ Len(WithCode(events[1], "mpr-ui.auth.invalid_profile")) = 1
  /\ Len(OfType(events[1], "mpr-ui:auth:unauthenticated")) = 1

\* C12: constructing a controller when no session hook is present dispatches
\* an unauthenticated event with profile null during the construction.
C12_InitialUnauthenticatedEvent ==
  [][\A c \in Controllers :
       (step'.op = "construct" /\ step'.c = c /\ ~hook')
       => \E i \in 1..Len(events'[c]) :
            /\ events'[c][i].type = "mpr-ui:auth:unauthenticated"
            /\ events'[c][i].profile = JsNull]_vars

\* C13: the construction of a controller with no session hook present issues
\* no transport call: none is in flight when createAuthHeader returns, before
\* any handleCredential.
C13_NoTransportAtConstruction ==
  [][\A c \in Controllers :
       (step'.op = "construct" /\ step'.c = c /\ ~hook')
       => /\ \A n \in nonceCalls' : n.c # c
          /\ \A i \in 1..Len(tasks') :
               tasks'[i].c = c => tasks'[i].phase = "await"]_vars

\* an option that is no usable id: left out, not a string, or blank
Unusable(value) == value \in {Undefined, "", "#7", " "}

\* C18: createAuthHeader given a missing, non-string or blank tenantId or
\* googleClientId creates nothing: the controller is not built, no event is
\* dispatched, no transport call or continuation is started, nothing is queued
\* for the identity client and no script load is started.
C18_ConstructionValidated ==
  [][\A c \in Controllers :
       (/\ step'.op \in {"construct", "constructThrow"}
        /\ step'.c = c
        /\ \/ Unusable(step'.input.googleClientId)
           \/ Unusable(step'.input.tenantId))
       => /\ ~ctl'[c].built /\ ctl' = ctl /\ attrs' = attrs
          /\ events'[c] = <<>>
          /\ nonceCalls' = nonceCalls /\ nReq' = nReq /\ tasks' = tasks
          /\ exchanges' = exchanges
          /\ queue' = queue /\ inits' = inits /\ lastConfig' = lastConfig
          /\ gPromise' = gPromise /\ scriptLoads' = scriptLoads]_vars

\* a construction with a client id and a blank tenant id has thrown
C18_Witness ==
  /\ step.op = "constructThrow" /\ step.c = 1
  /\ step.input = [googleClientId |-> "abc", tenantId |-> " "]
  /\ ~Built(1) /\ nonceCalls = {} /\ tasks = <<>> /\ scriptLoads = 0

\* C19: when the promise of the session hook rejects, bootstrapSession's catch
\* dispatches an error with code bootstrap_failed and the controller's status
\* is "unauthenticated" afterwards.
C19_BootstrapFailed ==
  [][\A c \in Controllers :
       (step'.op = "bootstrapRejected" /\ step'.c = c)
       => /\ Len(WithCode(events'[c], "mpr-ui.auth.bootstrap_failed")) = 1
          /\ ctl'[c].status = "unauthenticated"]_vars

\* C20: a task in which a controller dispatches an auth error event ends with
\* the controller in status "unauthenticated" with profile null.
C20_ErrorsEndUnauthenticated ==
  [][\A c \in Controllers :
       OfType(events'[c], "mpr-ui:auth:error") # <<>>
       => /\ ctl'[c].status = "unauthenticated"
          /\ ctl'[c].profile = JsNull]_vars

Fetches(calls_) == SelectSeq(calls_, LAMBDA x : x.transport = "fetch")

\* the tasks in which a transport's rejection reaches the caller of the
\* operation: requestNonceToken's, exchangeCredential's and performLogout's
\* promise rejects
Surfaced == {"nonceRejected", "exchangeRejected", "signOutRejected"}

\* C16: an operation started when its helper is no function goes to the fetch;
\* a fetch of an operation whose helper exists is issued only in the task in
\* which the helper rejected with the missing-base marker, and is issued then;
\* any other rejection of a helper reaches the operation's caller and issues no
\* fetch.
C16_TransportResolution ==
  [][/\ \A i \in 1..Len(sent') :
          /\ ~sent'[i].helper => sent'[i].transport = "fetch"
          /\ (sent'[i].helper /\ sent'[i].transport = "fetch")
               => shouldFallbackToFetch(step'.err)
     /\ (step'.err \in HelperErrors /\ shouldFallbackToFetch(step'.err))
          => Len(Fetches(sent')) = 1 /\ Len(sent') = 1
     /\ (step'.err \in HelperErrors /\ ~shouldFallbackToFetch(step'.err))
          => Fetches(sent') = <<>> /\ step'.op \in Surfaced]_vars

\* C17: every fetch a controller issues (nonce issuance, credential exchange,
\* logout; direct or as the fallback of a helper) is a POST that carries the
\* X-TAuth-Tenant header with the controller's tenant id, and signOut started
\* when the logout helper is no function issues a POST to the logout path with
\* that header.
C17_TenantHeader ==
  /\ \A i \in 1..Len(sent) :
       sent[i].transport = "fetch"
         => /\ sent[i].method = "POST"
            /\ sent[i].headers["X-TAuth-Tenant"] = ctl[sent[i].c].tenantId
            /\ sent[i].headers["X-TAuth-Tenant"] \in {"t1", "t2"}
  /\ step.op = "signOut"
       => /\ Len(sent) = 1 /\ sent[1].operation = "logout" /\ sent[1].c = step.c
          /\ ~sent[1].helper
               => /\ sent[1].transport = "fetch" /\ sent[1].method = "POST"
                  /\ sent[1].path = "/auth/logout"
                  /\ sent[1].headers["X-TAuth-Tenant"] = ctl[step.c].tenantId

\* signOut without a logout helper has issued its POST
C17_Witness ==
  /\ step.op = "signOut" /\ Len(sent) = 1 /\ ~sent[1].helper
  /\ sent[1].transport = "fetch" /\ sent[1].path = "/auth/logout"
  /\ sent[1].headers["X-TAuth-Tenant"] = "t1"

\* the continuations of the login button that wait for controller c's nonce
WidgetWaiting(c) ==
  {i \in 1..Len(tasks) :
     tasks[i].origin = "widget" /\ tasks[i].phase = "await" /\ tasks[i].c = c}

\* C14: when the nonce request settles and every continuation of the login
\* button that waits for it was started by a render after which the button was
\* rendered again or detached, the task changes no field or attribute of the
\* login button, mounts nothing in its container and dispatches no
\* mpr-login:error.
C14_SupersededRenderIsNoOp ==
  [][\A c \in Controllers :
       (/\ step'.op \in {"nonceResolved", "nonceRejected"} /\ step'.c = c
        /\ WidgetWaiting(c) # {}
        /\ \A i \in WidgetWaiting(c) : tasks[i].seq \in login.superseded)
       => /\ login' = [login EXCEPT !.errors = <<>>]
          /\ button' = button]_vars

\* C15: the task in which a credential exchange settles (in particular one
\* started before the login button's render sequence number advanced) leaves
\* the mounted sign-in button as it is: the container's attributes, the
\* rendered button, the buttons waiting for the script and the element's
\* cleanup.
C15_ExchangeLeavesButton ==
  [][step'.op \in {"exchangeResolved", "exchangeRejected"}
       => /\ button' = button
          /\ login'.googleCleanup = login.googleCleanup
          /\ login'.googleHost = login.googleHost
          /\ login'.renderSequenceNumber = login.renderSequenceNumber]_vars

\* an exchange started under render 1 answers a profile while the button of
\* render 2 is mounted
C15_Witness ==
  /\ step.op = "exchangeResolved" /\ IsObject(step.val)
  /\ step.seq = 1 /\ login.renderSequenceNumber = 2
  /\ button.rendered = 2 /\ button.dataReady = "true" /\ login.googleCleanup = 2

\* the controller leaves "authenticated" in this step
LeavesAuthenticated(c) ==
  ctl[c].status = "authenticated" /\ ctl'[c].status = "unauthenticated"
\* markAuthenticated received an invalid profile in the step
InvalidProfileStep ==
  step'.op \in {"exchangeResolved", "onAuthenticated"} /\ ~IsObject(step'.val)

\* C21, as stated: a controller leaves "authenticated" only when a logout
\* succeeds, when markAuthenticated receives an invalid profile, or when the
\* session hook reports unauthenticated.
C21_AsStated ==
  [][\A c \in Controllers :
       LeavesAuthenticated(c)
       => \/ step'.op \in {"logoutResolved", "onUnauthenticated"}
          \/ InvalidProfileStep]_vars

\* C21: a controller leaves "authenticated" only when signOut's logout step
\* completes on a page without a session hook (the logout resolved, or its
\* rejection was swallowed), when markAuthenticated receives an invalid
\* profile, when the session hook reports unauthenticated, when
\* handleCredential is called without a credential, when a credential
\* exchange fails (its nonce request or the exchange itself), or when
\* restartSessionWatcher runs on a page without a session hook.
C21_LeavesAuthenticatedOnlyBy ==
  [][\A c \in Controllers :
       LeavesAuthenticated(c)
       => \/ step'.op \in {"logoutResolved", "logoutSwallowed"} /\ ~hook
          \/ step'.op = "onUnauthenticated"
          \/ InvalidProfileStep
          \/ step'.op = "handleCredential" /\ ~HasCredential(step'.cred)
          \/ step'.op \in {"exchangeRejected", "nonceRejected"}
          \/ step'.op = "restartSessionWatcher" /\ ~hook]_vars

\* an authenticated controller was marked unauthenticated by a failed exchange
C21_Witness ==
  /\ step.op = "exchangeRejected" /\ notes[1].everAuthenticated
  /\ ctl[1].status = "unauthenticated"
  /\ Len(OfType(events[1], "mpr-ui:auth:unauthenticated")) = 1
  /\ Len(WithCode(events[1], "mpr-ui.auth.exchange_failed")) = 1

\* C22: the configs handed to initialize so far followed by the configs still
\* queued are the configs enqueued so far, each once and in enqueue order;
\* whenever the identity client is there the queue is empty (every enqueue is
\* followed by a drain, and the script's onload drains what was queued while
\* it loaded).
C22_InitializeQueueFifo ==
  /\ Len(inits) + Len(queue) = enqueued
  /\ \A i \in 1..Len(inits) : inits[i].id = i
  /\ \A i \in 1..Len(queue) : queue[i].id = Len(inits) + i
  /\ google => queue = <<>>

\* the script has loaded and the configs both controllers queued while it
\* loaded were initialized
C22_Witness ==
  /\ step.op = "scriptLoaded" /\ google /\ queue = <<>> /\ Len(inits) >= 3
  /\ \A c \in Controllers : \E i \in 1..Len(inits) : inits[i].c = c

\* C23: when the identity script fails to load, the promise every waiting
\* caller holds is rejected, and the failure reaches every consumer that was
\* waiting as an error with code google_script_failed: each controller whose
\* configureGoogleNonce queued a config and waits for the client, and each
\* sign-in button that waits to be rendered.
C23_ScriptFailureSurfaced ==
  [][step'.op = "scriptError"
       => /\ gPromise' = "rejected"
          /\ \A i \in 1..Len(queue) :
               WithCode(events'[queue[i].c], "mpr-ui.google_script_failed") # <<>>
          /\ \A id \in button.waiting :
               \E j \in 1..Len(login'.errors) :
                 login'.errors[j] = "mpr-ui.google_script_failed"]_vars

NonceRequestsSent(calls_) ==
  SelectSeq(calls_, LAMBDA x : x.operation = "requestNonce")

\* C24: the task in which a nonce request settles (resolved, or rejected for
\* good) clears nonceRequestPromise and issues no nonce request; a later call
\* that reaches requestNonceToken (handleCredential or prepareGoogleNonce with
\* no pending token) issues a new request; and new requests are issued only by
\* calls of the API, never by a task that settles something.
C24_NonceReferenceCleared ==
  [][/\ \A c \in Controllers :
          (step'.op \in {"nonceResolved", "nonceRejected"} /\ step'.c = c)
          => /\ ctl'[c].nonceRequestPromise = 0
             /\ \A n \in nonceCalls' : n.c # c
             /\ NonceRequestsSent(sent') = <<>>
     /\ \A c \in Controllers :
          (/\ \/ step'.op = "handleCredential" /\ HasCredential(step'.cred)
              \/ step'.op = "prepareGoogleNonce"
           /\ step'.c = c
           /\ ctl[c].pendingNonceToken = 0 /\ ctl[c].nonceRequestPromise = 0)
          => /\ nReq' = nReq + 1
             /\ ctl'[c].nonceRequestPromise = nReq'
             /\ Len(NonceRequestsSent(sent')) = 1
             /\ \E n \in nonceCalls' : n.id = nReq' /\ n.c = c
     /\ nReq' # nReq
          => step'.op \in {"construct", "handleCredential", "prepareGoogleNonce",
                           "connectedCallback", "attributeChangedCallback"}]_vars

\* the construction's request failed, and the first call of the API issued the
\* second request
C24_Witness ==
  /\ step.op = "prepareGoogleNonce" /\ calls = 1 /\ nReq = 2
  /\ ctl[1].nonceRequestPromise = 2
  /\ nonceCalls # {} /\ \A n \in nonceCalls : n.id = 2

\* the continuations of controller c that wait for its nonce request and are
\* to report its failure themselves: construction's priming and the
\* credential exchanges (prepareGoogleNonce hands the rejection to its caller)
ReportingWaiters(c) ==
  {i \in 1..Len(tasks) :
     /\ tasks[i].c = c /\ tasks[i].phase = "await"
     /\ tasks[i].kind = "exchange" \/ tasks[i].origin = "prime"}

\* C25: when a nonce request fails, each path that waits for it dispatches an
\* error with code nonce_failed that carries the failure's status (null when
\* it has none): construction's priming and every credential exchange.
C25_NonceFailureSurfaced ==
  [][\A c \in Controllers :
       (step'.op = "nonceRejected" /\ step'.c = c)
       => /\ Len(WithCode(events'[c], "mpr-ui.auth.nonce_failed"))
               = Cardinality(ReportingWaiters(c))
          /\ \A i \in 1..Len(events'[c]) :
               events'[c][i].code = "mpr-ui.auth.nonce_failed"
                 => events'[c][i].status = StatusOrNull(step'.err)]_vars

\* C29: bootstrapSession (restartSessionWatcher) on a page without a session
\* hook leaves the controller unauthenticated with profile null and the host's
\* data-user-* attributes removed, dispatches no event, hands no callbacks to a
\* hook, and issues no transport call and starts no continuation.
C29_BootstrapWithoutHook ==
  [][\A c \in Controllers :
       (step'.op = "restartSessionWatcher" /\ step'.c = c /\ ~hook)
       => /\ ctl'[c].status = "unauthenticated" /\ ctl'[c].profile = JsNull
          /\ attrs'[ctl[c].host] = NoAttributes
          /\ events'[c] = <<>>
          /\ ~ctl'[c].hooked
          /\ sent' = <<>> /\ tasks' = tasks /\ nonceCalls' = nonceCalls]_vars

\* an authenticated controller (its authenticated event is the last event it
\* dispatched) was made unauthenticated by restartSessionWatcher
C29_Witness ==
  /\ step.op = "restartSessionWatcher" /\ ~hook
  /\ notes[1].everAuthenticated /\ notes[1].unauthenticatedRun = 0
  /\ ctl[1].status = "unauthenticated" /\ attrs[1] = NoAttributes

\* C30: a prepareGoogleNonce that finds a pending token issues no nonce
\* request, and no nonce token is carried by two of the configs enqueued for
\* the identity client's initialize.
C30_TokenInOneConfig ==
  LET configs == inits \o queue IN
  /\ (step.op = "prepareGoogleNonce" /\ nonceCalls = {})
       => NonceRequestsSent(sent) = <<>>
  /\ \A i, j \in 1..Len(configs) :
       configs[i].nonce = configs[j].nonce => i = j

\* the README's limit of the jurisdiction selector: "Compare up to 6 states"
MaxCompared == 6

\* C26: the set of jurisdictions selected for comparison never holds more
\* than 6 of them, whatever checkboxes were toggled and whether Select All or
\* Select None was clicked.
C26_AtMostSixSelected ==
  Cardinality(app.selectedJurisdictions) <= MaxCompared

Logs(p, call) == \E i \in 1..Len(p.log) : p.log[i] = call
RowNames(rows) == {rows[i].jurisdictionName : i \in 1..Len(rows)}
SelectionOps == {"checkboxChange", "selectAll", "selectNone"}

ResetRestores ==
  /\ app'.value = DefaultValues
  /\ app'.checked = DefaultChecked
  /\ app'.labels = [weightFiscalValue |-> DefaultValues["weightFiscal"],
                    weightPermissionValue |-> DefaultValues["weightPermission"]]
  /\ app'.selectedJurisdictions = app.selectedJurisdictions
  /\ app'.selectionList = app.selectionList

\* the table and the charts were rendered from the controls' present values
\* and the selection
Rerendered(p) ==
  /\ Logs(p, "renderTable")
  /\ p.resultsBody = FilteredResults(p)
  /\ p.scatterChart.names = ChartNames(p.resultsBody, Len(p.resultsBody))
  /\ p.scatterChart.state = IF p.resultsBody = <<>> THEN "purged" ELSE "plotted"
  /\ p.radarChart.state = p.scatterChart.state

\* C28 as stated: Reset restores every input control to its default,
\* re-renders the results and leaves the selection unchanged.
C28_AsStated ==
  [][app'.op = "reset" => (ResetRestores /\ Rerendered(app'))]_vars

\* C28: Reset restores every input control (income, household type, spend
\* ratio, home value, the goal checkboxes, both weights and their labels) to
\* its default whatever it held, leaves the jurisdiction selection and its
\* checkboxes unchanged, and re-renders the table and both charts from the
\* defaults once the dataset has loaded; without a dataset it renders nothing.
C28_ResetRestoresDefaults ==
  [][app'.op = "reset"
       => /\ ResetRestores
          /\ app.dataset = "loaded" => Rerendered(app')
          /\ app.dataset = "null"
               => /\ app'.log = <<>>
                  /\ app'.resultsBody = app.resultsBody
                  /\ app'.radarChart = app.radarChart
                  /\ app'.scatterChart = app.scatterChart]_vars

\* Reset ran on a loaded page whose selection was no longer the first five
C28_Witness ==
  /\ app.op = "reset" /\ app.dataset = "loaded"
  /\ NumJurisdictions \in app.selectedJurisdictions
  /\ 1 \notin app.selectedJurisdictions
  /\ Len(app.resultsBody) = Cardinality(app.selectedJurisdictions)
  /\ app.value = DefaultValues /\ app.checked = DefaultChecked

\* C31: when the session hook's onAuthenticated hands over profile P while the
\* profile F of a credential exchange that has just completed is pending (no
\* hook callback and no sign-out since), the controller authenticates with F
\* overlaid by P and holds no pending profile afterwards.
C31_PendingFragmentMerged ==
  [][\A c \in Controllers :
       (/\ step.op = "exchangeResolved" /\ step.c = c /\ IsObject(step.val)
        /\ step'.op = "onAuthenticated" /\ step'.c = c /\ IsObject(step'.val))
       => /\ ctl'[c].status = "authenticated"
          /\ ctl'[c].profile = ObjectAssign(step.val, step'.val)
          /\ ctl'[c].pendingProfile = JsNull]_vars

\* a render of the connected login button: connectedCallback, or
\* attributeChangedCallback while it is connected
Rerender ==
  \/ step'.op = "connectedCallback"
  \/ step'.op = "attributeChangedCallback" /\ login.connected

\* C32: the login button's render sequence number never decreases, and every
\* render of the connected button (the first one or one after an attribute
\* changed) increases it, whatever the button's attributes are at that render.
C32_RenderEpochIncreases ==
  [][/\ login'.renderSequenceNumber >= login.renderSequenceNumber
     /\ Rerender => login'.renderSequenceNumber > login.renderSequenceNumber]_vars

\* C33: a controller's status becomes authenticated only in the session
\* hook's onAuthenticated callback or when a credential exchange succeeds, and
\* only with the object profile that callback or exchange handed over.
C33_AuthenticatedOnlyBy ==
  [][\A c \in Controllers :
       (ctl[c].status # "authenticated" /\ ctl'[c].status = "authenticated")
       => /\ step'.c = c
          /\ step'.op \in {"onAuthenticated", "exchangeResolved"}
          /\ IsObject(step'.val)
          /\ ctl'[c].profile = step'.val]_vars

\* a controller on a page without a session hook was authenticated by its
\* credential exchange
C33_Witness ==
  /\ ~hook /\ step.op = "exchangeResolved" /\ step.c = 1
  /\ ctl[1].status = "authenticated" /\ ctl[1].profile = PBob

\* the handleCredential calls of controller c that have not completed
ExchangesOf(ts, c) ==
  Len(SelectSeq(ts, LAMBDA t : t.kind = "exchange" /\ t.c = c))

\* a handleCredential call of controller c completes in this step: one that was
\* waiting for a transport, or one that needed none
HandleCredentialCompletes(c) ==
  \/ ExchangesOf(tasks', c) < ExchangesOf(tasks, c)
  \/ /\ step'.op = "handleCredential" /\ step'.c = c
     /\ ExchangesOf(tasks', c) = ExchangesOf(tasks, c)

\* C34: when every transport call is answered, every handleCredential call
\* completes (no exchange stays pending), and at its completion the
\* controller is authenticated with the profile the exchange returned, or
\* unauthenticated with an error event dispatched.
C34_HandleCredentialCompletes ==
  /\ [][\A c \in Controllers :
          HandleCredentialCompletes(c)
          => \/ /\ ctl'[c].status = "authenticated"
                /\ step'.op = "exchangeResolved"
                /\ ctl'[c].profile = step'.val
             \/ /\ ctl'[c].status = "unauthenticated"
                /\ ctl'[c].profile = JsNull
                /\ OfType(events'[c], "mpr-ui:auth:error") # <<>>]_vars
  /\ (ExchangesOf(tasks, 1) > 0) ~> (ExchangesOf(tasks, 1) = 0)

\* a handleCredential call that waited for a nonce and then for the exchange
\* completed with the controller authenticated
C34_Witness ==
  /\ step.op = "exchangeResolved" /\ step.c = 1 /\ IsObject(step.val)
  /\ ExchangesOf(tasks, 1) = 0 /\ calls > 0
  /\ ctl[1].status = "authenticated" /\ ctl[1].profile = step.val
  /\ nReq > 1

\* C35: the state events of one controller never repeat: between two
\* unauthenticated events there is an authenticated one, and an authenticated
\* event that follows another directly carries a profile of a different
\* serialization.
C35_NoRepeatedNotification ==
  \A c \in Controllers :
    /\ notes[c].unauthenticatedRun <= 1
    /\ ~notes[c].repeated

\* a controller is quiescent: no continuation of it waits for a transport
Quiescent(c) ==
  /\ \A i \in 1..Len(tasks) : tasks[i].c # c
  /\ \A n \in nonceCalls : n.c # c

\* C36: once a controller has dispatched a state event, whenever it is
\* quiescent the last state event it dispatched (authenticated or
\* unauthenticated) matches its status.
C36_NoSilentStatusChange ==
  \A c \in Controllers :
    (Quiescent(c) /\ (notes[c].everAuthenticated \/ notes[c].unauthenticatedRun > 0))
      => (ctl[c].status = "authenticated"
            <=> (notes[c].everAuthenticated /\ notes[c].unauthenticatedRun = 0))

\* the nonce of the config the identity client was initialized with last
LastInitialized(configs) == configs[Len(configs)].nonce

\* C37: a credential exchange is sent with the nonce token the identity
\* client was initialized with most recently (a credential comes from an
\* initialized client; the initialization may be part of the same task).
C37_ExchangeUsesInitializedNonce ==
  [][\A n \in 1..nReq' :
       (Uses(exchanges', n) > Uses(exchanges, n) /\ inits # <<>>)
       => \/ LastInitialized(inits) = n
          \/ LastInitialized(inits') = n]_vars

\* C38: with two controllers of different tenants on one page, every call of
\* a host helper (nonce, exchange, logout, session restore) made for a
\* controller runs while the tenant last given to global.setAuthTenantId is
\* that controller's tenant id, whatever the interleaving of the two
\* controllers' operations
C38_HelperRunsUnderOwnTenant ==
  \A i \in 1..Len(sent) :
    sent[i].transport = "helper" => sent[i].tenant = ctl[sent[i].c].tenantId

\* the sign-in button mounts of the login button that were not cleaned up
ActiveMounts == button.mounted \ button.cleaned

\* C39: the login button has at most one sign-in button mount that was not
\* cleaned up, after any sequence of renders, attribute updates, detaches and
\* re-attaches interleaved with answers of the nonce request and of the
\* identity script; and a mount that was cleaned up never renders a button
\* or reports an error afterwards.
C39_OneActiveMount ==
  /\ Cardinality(ActiveMounts) <= 1
  /\ button.revived = {}

\* the identity script loads after the mount of render 1 was cleaned up while
\* it waited for the script: the mount of render 2 alone renders its button
C39_Witness ==
  /\ step.op = "scriptLoaded" /\ google
  /\ 1 \in button.cleaned
  /\ ActiveMounts = {2} /\ button.rendered = 2 /\ login.googleCleanup = 2

====
